---- MODULE Spec2Model ----
(***************************************************************************)
(* Dashboard membership and permission model of todo-django               *)
(* (api/v1/todo): the Dashboard and DashboardMember tables, the           *)
(* PermissionService checks, and the dashboard / member HTTP handlers.    *)
(*                                                                         *)
(* Every handler is one atomic action, except POST members, which is two  *)
(* steps (the checks up to the .exists() query, then the INSERT) so that  *)
(* concurrent add-member requests can interleave between them.  A handler *)
(* leaves its response in "last"; Respond returns it to the client.       *)
(*                                                                         *)
(* The todo endpoints (SpecTodo) and the JWT authentication of todo_api   *)
(* (SpecAuth) have their own tables, responses and specifications, and so  *)
(* have the tag endpoints (SpecTag), the rate_limit decorator around       *)
(* login_view (SpecRate), and the TodoService and DashboardService methods *)
(* called directly (SpecTodoService, SpecDashboardService).                *)
(***************************************************************************)
EXTENDS Integers, FiniteSets, Sequences, Bags, TLC

(* ------------------------------ bounds -------------------------------- *)
MaxUsers == 2
MaxDashboards == 2
MaxMembers == 3
MaxInflight == 2
MaxTodos == 2
MaxLogins == 2
MaxTicks == 2
MaxTags == 2

(* ----------------------------- constants ------------------------------ *)
\* request.user is None / the request is not authenticated
NoUser == 0
Users == 1..MaxUsers
\* an e-mail address that belongs to no user
UnknownEmail == 0

OWNER == "owner"
EDITOR == "editor"
VIEWER == "viewer"
\* DashboardMember.ROLE_CHOICES
ROLE_CHOICES == {OWNER, EDITOR, VIEWER}
\* a role string that is not one of the choices
BogusRole == "admin"
\* get_user_role returns None
None == "none"

DashboardIds == 1..MaxDashboards
MemberIds == 1..MaxMembers

VARIABLES
    dashboards,      \* Dashboard table: id -> [owner, is_public]
    members,         \* DashboardMember table: id -> [dashboard, user, role]
    nextDashboardId, \* AutoField sequence of Dashboard
    nextMemberId,    \* AutoField sequence of DashboardMember
    inflight,        \* bag of add-member requests between .exists() and
                     \* INSERT: [dashboard, user, role, requester]
    last             \* the response being returned, with its request

VARIABLES
    todos,           \* Todo table: id -> [dashboard, title, status,
                     \* completed_by, completed_at]
    nextTodoId,      \* AutoField sequence of Todo
    todoLast         \* the response of a todo endpoint, with its request

VARIABLES
    users,           \* auth_user table: id -> [username, password]
    nextUserId,      \* AutoField sequence of User
    cache,           \* django cache, keys "refresh_token:<user id>":
                     \* user id -> [value, expires]
    issued,          \* the tokens _create_token has handed out so far
    clock,           \* datetime.now(), in minutes since the process start
    ticks,           \* how many times the clock has advanced
    current_time,    \* JWTService._current_time
    handed,          \* what the clients keep of each user's sessions
    authLast         \* the response of an auth endpoint, with its request

VARIABLES
    tags,            \* Tag table: id -> [dashboard, name]
    nextTagId,       \* AutoField sequence of Tag
    tagLast          \* the response of a tag endpoint, with its request

VARIABLES
    rateCache,       \* django cache, keys "<key_prefix>:<client ip>":
                     \* key -> [value, expires]
    rateInflight,    \* bag of rate-limited requests between cache.get and
                     \* cache.set: [key, requests_made]
    reached          \* key -> how many requests reached the wrapped view
                     \* since the key's counter last expired

dashVars ==
    <<dashboards, members, nextDashboardId, nextMemberId, inflight, last>>
todoVars == <<todos, nextTodoId, todoLast>>
authVars ==
    <<users, nextUserId, cache, issued, clock, ticks, current_time, handed,
      authLast>>

tagVars == <<tags, nextTagId, tagLast>>
rateVars == <<rateCache, rateInflight, reached>>

vars == <<dashVars, todoVars, authVars, tagVars, rateVars>>

(* ------------------------------ tables -------------------------------- *)
\* DashboardMember.objects.filter(dashboard=d, user=u)
MemberRows(d, u) ==
    {m \in DOMAIN members : members[m].dashboard = d /\ members[m].user = u}

\* DashboardMember.objects.filter(dashboard_id=d)
get_dashboard_members(d) ==
    {m \in DOMAIN members : members[m].dashboard = d}

Remove(f, ks) == [k \in (DOMAIN f) \ ks |-> f[k]]

\* a response together with the request it answers: the requester, the ids
\* in the URL, the user named by the body's email and the body's role
Resp(op, u, d, m, t, r, st, msg) ==
    [op |-> op, user |-> u, dashboard_id |-> d, member_id |-> m,
     target |-> t, role |-> r, status |-> st, message |-> msg]

(* -------------------------- PermissionService ------------------------- *)
PermissionResult(g, msg) == [granted |-> g, message |-> msg]

get_user_role(u, d) ==
    IF MemberRows(d, u) = {} THEN None
    ELSE members[CHOOSE m \in MemberRows(d, u) : TRUE].role

\* faulty variant: the is_public shortcut is missing
check_dashboard_access_members_only(d, u) ==
    IF u = NoUser THEN PermissionResult(FALSE, "Authentication required")
    ELSE IF d \notin DOMAIN dashboards
         THEN PermissionResult(FALSE, "Dashboard not found")
    ELSE IF MemberRows(d, u) = {}
         THEN PermissionResult(FALSE, "Access denied")
    ELSE PermissionResult(TRUE, "Access granted")

check_dashboard_access(d, u) ==
    IF u = NoUser THEN PermissionResult(FALSE, "Authentication required")
    ELSE IF d \notin DOMAIN dashboards
         THEN PermissionResult(FALSE, "Dashboard not found")
    ELSE IF dashboards[d].is_public
         THEN PermissionResult(TRUE, "Access granted")
    ELSE IF MemberRows(d, u) = {}
         THEN PermissionResult(FALSE, "Access denied")
    ELSE PermissionResult(TRUE, "Access granted")

\* faulty variant: every member, viewers included, may edit
check_dashboard_edit_permission_any_member(d, u) ==
    IF u = NoUser THEN PermissionResult(FALSE, "Authentication required")
    ELSE IF d \notin DOMAIN dashboards
         THEN PermissionResult(FALSE, "Dashboard not found")
    ELSE IF MemberRows(d, u) = {}
         THEN PermissionResult(FALSE, "Access denied")
    ELSE PermissionResult(TRUE, "Edit permission granted")

\* faulty variant: a public dashboard may be edited by anybody logged in
check_dashboard_edit_permission_public_too(d, u) ==
    IF u = NoUser THEN PermissionResult(FALSE, "Authentication required")
    ELSE IF d \notin DOMAIN dashboards
         THEN PermissionResult(FALSE, "Dashboard not found")
    ELSE IF dashboards[d].is_public
         THEN PermissionResult(TRUE, "Edit permission granted")
    ELSE IF MemberRows(d, u) = {}
         THEN PermissionResult(FALSE, "Access denied")
    ELSE IF get_user_role(u, d) \in {OWNER, EDITOR}
         THEN PermissionResult(TRUE, "Edit permission granted")
    ELSE PermissionResult(FALSE, "Edit permission denied")

check_dashboard_edit_permission(d, u) ==
    IF u = NoUser THEN PermissionResult(FALSE, "Authentication required")
    ELSE IF d \notin DOMAIN dashboards
         THEN PermissionResult(FALSE, "Dashboard not found")
    ELSE IF MemberRows(d, u) = {}
         THEN PermissionResult(FALSE, "Access denied")
    ELSE IF get_user_role(u, d) \in {OWNER, EDITOR}
         THEN PermissionResult(TRUE, "Edit permission granted")
    ELSE PermissionResult(FALSE, "Edit permission denied")

\* faulty variant: the owner check accepts editors as well
check_dashboard_owner_permission_editors_too(d, u) ==
    IF u = NoUser THEN PermissionResult(FALSE, "Authentication required")
    ELSE IF d \notin DOMAIN dashboards
         THEN PermissionResult(FALSE, "Dashboard not found")
    ELSE IF dashboards[d].owner = u \/ get_user_role(u, d) = EDITOR
         THEN PermissionResult(TRUE, "Access granted")
    ELSE PermissionResult(FALSE, "Only the owner can perform this action")

check_dashboard_owner_permission(d, u) ==
    IF u = NoUser THEN PermissionResult(FALSE, "Authentication required")
    ELSE IF d \notin DOMAIN dashboards
         THEN PermissionResult(FALSE, "Dashboard not found")
    ELSE IF dashboards[d].owner = u
         THEN PermissionResult(TRUE, "Access granted")
    ELSE PermissionResult(FALSE, "Only the owner can perform this action")

\* check_user_role + is_dashboard_owner: the owner test on the member table
is_dashboard_owner(d, u) ==
    /\ d \in DOMAIN dashboards
    /\ u \in Users
    /\ get_user_role(u, d) # None
    /\ get_user_role(u, d) = OWNER

\* validate_*: the APIError raised (status 403 with the check's message),
\* or status 200 when the Dashboard is returned
validate_dashboard_access(d, u) ==
    IF ~check_dashboard_access(d, u).granted
    THEN [status |-> 403, message |-> check_dashboard_access(d, u).message]
    ELSE [status |-> 200, message |-> "ok"]

validate_dashboard_edit_permission(d, u) ==
    IF ~check_dashboard_edit_permission(d, u).granted
    THEN [status |-> 403,
          message |-> check_dashboard_edit_permission(d, u).message]
    ELSE [status |-> 200, message |-> "ok"]

validate_dashboard_owner_permission(d, u) ==
    IF ~check_dashboard_owner_permission(d, u).granted
    THEN [status |-> 403,
          message |-> check_dashboard_owner_permission(d, u).message]
    ELSE [status |-> 200, message |-> "ok"]

(* ------------------------------- Init --------------------------------- *)
NoResponse == Resp("none", NoUser, 0, 0, 0, None, 0, "")

\* a todo response together with its request
TodoResp(op, u, d, t, st, msg) ==
    [op |-> op, user |-> u, dashboard_id |-> d, todo_id |-> t,
     status |-> st, message |-> msg]

NoTodoResponse == TodoResp("none", NoUser, 0, 0, 0, "")

\* the Todo table after the migrations
TodoInit ==
    /\ todos = <<>>
    /\ nextTodoId = 1
    /\ todoLast = NoTodoResponse

\* an auth response together with its request: the token presented, the
\* user the handler acted for, and the pair of tokens in the body
NoToken == [type |-> "none", user_id |-> NoUser, exp |-> 0, username |-> ""]

AuthResp(op, presented, u, st, msg, access, refresh) ==
    [op |-> op, presented |-> presented, user |-> u, status |-> st,
     message |-> msg, access |-> access, refresh |-> refresh, time |-> clock]

NoAuthResponse ==
    [op |-> "none", presented |-> NoToken, user |-> NoUser, status |-> 0,
     message |-> "", access |-> NoToken, refresh |-> NoToken, time |-> 0]

\* the process starts: no user, an empty cache, jwt_service = JWTService()
AuthInit ==
    /\ users = <<>>
    /\ nextUserId = 1
    /\ cache = <<>>
    /\ issued = {}
    /\ clock = 0
    /\ ticks = 0
    /\ current_time = clock
    /\ handed = <<>>
    /\ authLast = NoAuthResponse

\* a tag response together with its request
TagResp(op, u, d, t, st, msg) ==
    [op |-> op, user |-> u, dashboard_id |-> d, tag_id |-> t,
     status |-> st, message |-> msg]

NoTagResponse == TagResp("none", NoUser, 0, 0, 0, "")

\* the Tag table after the migrations
TagInit ==
    /\ tags = <<>>
    /\ nextTagId = 1
    /\ tagLast = NoTagResponse

\* no rate-limited request has been made
RateInit ==
    /\ rateCache = <<>>
    /\ rateInflight = EmptyBag
    /\ reached = <<>>

Init ==
    /\ dashboards = <<>>
    /\ members = <<>>
    /\ nextDashboardId = 1
    /\ nextMemberId = 1
    /\ inflight = EmptyBag
    /\ last = NoResponse
    /\ TodoInit
    /\ AuthInit
    /\ TagInit
    /\ RateInit

(* ----------------------- login_required decorator --------------------- *)
\* an unauthenticated request is redirected to the login page
LoginRedirect(op, d, m) ==
    /\ last' = Resp(op, NoUser, d, m, 0, None, 302, "redirect to login")
    /\ UNCHANGED <<dashboards, members, nextDashboardId, nextMemberId,
                   inflight>>

(* ----------------------------- Dashboard ------------------------------ *)
\* faulty variant: the receiver creates the row with the default add-member role
create_owner_member_as_viewer(mem, mid, d, owner) ==
    mem @@ (mid :> [dashboard |-> d, user |-> owner, role |-> VIEWER])

\* post_save receiver of Dashboard: the owner's membership row
create_owner_member(mem, mid, d, owner) ==
    mem @@ (mid :> [dashboard |-> d, user |-> owner, role |-> OWNER])

\* faulty variant: autocommit, what the block wrote stays when it raises
transaction_atomic_autocommit(before, written, raised) == written

\* with transaction.atomic(): what the block wrote is committed, unless an
\* exception leaves the block
transaction_atomic(before, written, raised) ==
    IF raised THEN before ELSE written

\* DashboardService.create_dashboard inside DashboardCollectionView.post;
\* insert_fails: the INSERT of the owner's membership row, made by the
\* post_save receiver inside the atomic block, raises a database error
DashboardCollectionPost(u, title, is_public, insert_fails) ==
    IF u = NoUser THEN LoginRedirect("create_dashboard", 0, 0)
    ELSE IF title = ""
    THEN /\ last' = Resp("create_dashboard", u, 0, 0, 0, None, 400,
                         "Dashboard title is required")
         /\ UNCHANGED <<dashboards, members, nextDashboardId, nextMemberId,
                        inflight>>
    ELSE /\ nextDashboardId <= MaxDashboards
         /\ nextMemberId <= MaxMembers
         /\ dashboards' = transaction_atomic(
                dashboards,
                dashboards @@
                    (nextDashboardId :> [owner |-> u, is_public |-> is_public]),
                insert_fails)
         /\ members' = transaction_atomic(
                members,
                IF insert_fails THEN members
                ELSE create_owner_member(members, nextMemberId,
                                         nextDashboardId, u),
                insert_fails)
         /\ nextDashboardId' = transaction_atomic(
                nextDashboardId, nextDashboardId + 1, insert_fails)
         /\ nextMemberId' =
                IF insert_fails THEN nextMemberId ELSE nextMemberId + 1
         /\ last' = IF insert_fails
                    THEN Resp("create_dashboard", u, 0, 0, 0, None, 500,
                              "Failed to create dashboard")
                    ELSE Resp("create_dashboard", u, nextDashboardId, 0, 0,
                              None, 200, "success")
         /\ UNCHANGED inflight

\* DashboardDetailView.get
DashboardDetailGet(u, d) ==
    IF u = NoUser THEN LoginRedirect("get_dashboard", d, 0)
    ELSE /\ last' = Resp("get_dashboard", u, d, 0, 0, None,
                         validate_dashboard_access(d, u).status,
                         validate_dashboard_access(d, u).message)
         /\ UNCHANGED <<dashboards, members, nextDashboardId, nextMemberId,
                        inflight>>

\* DashboardDetailView.put with DashboardService.update_dashboard
DashboardDetailPut(u, d, title, is_public) ==
    IF u = NoUser THEN LoginRedirect("put_dashboard", d, 0)
    ELSE IF validate_dashboard_edit_permission(d, u).status # 200
    THEN /\ last' = Resp("put_dashboard", u, d, 0, 0, None, 403,
                         validate_dashboard_edit_permission(d, u).message)
         /\ UNCHANGED <<dashboards, members, nextDashboardId, nextMemberId,
                        inflight>>
    ELSE IF title = ""
    THEN /\ last' = Resp("put_dashboard", u, d, 0, 0, None, 400,
                         "Dashboard title cannot be empty")
         /\ UNCHANGED <<dashboards, members, nextDashboardId, nextMemberId,
                        inflight>>
    ELSE /\ dashboards' = [dashboards EXCEPT ![d].is_public = is_public]
         /\ last' = Resp("put_dashboard", u, d, 0, 0, None, 200, "success")
         /\ UNCHANGED <<members, nextDashboardId, nextMemberId, inflight>>

\* Dashboard.delete(): on_delete=CASCADE removes the dashboard's members
delete_dashboard(d) ==
    /\ dashboards' = Remove(dashboards, {d})
    /\ members' = Remove(members, get_dashboard_members(d))

\* DashboardDetailView.delete
DashboardDetailDelete(u, d) ==
    IF u = NoUser THEN LoginRedirect("delete_dashboard", d, 0)
    ELSE IF validate_dashboard_owner_permission(d, u).status # 200
    THEN /\ last' = Resp("delete_dashboard", u, d, 0, 0, None, 403,
                         validate_dashboard_owner_permission(d, u).message)
         /\ UNCHANGED <<dashboards, members, nextDashboardId, nextMemberId,
                        inflight>>
    ELSE /\ delete_dashboard(d)
         /\ last' = Resp("delete_dashboard", u, d, 0, 0, None, 200,
                         "Dashboard deleted successfully")
         /\ UNCHANGED <<nextDashboardId, nextMemberId, inflight>>

(* ----------------------------- exceptions ----------------------------- *)
\* APIError(message, status)
APIError(msg, st) == [type |-> "APIError", status |-> st, message |-> msg]

\* APIError(message, code, status): __init__ takes (message, status) only,
\* so the call itself raises TypeError
APIError_three_args(msg, code, st) ==
    [type |-> "TypeError", status |-> 0,
     message |-> "__init__() takes from 2 to 3 positional arguments"]

\* django.db.IntegrityError (unique_together or foreign key violated)
IntegrityError ==
    [type |-> "IntegrityError", status |-> 0, message |-> "integrity"]

\* utils.responses.handle_exception
handle_exception(e) ==
    IF e.type = "APIError"
    THEN [status |-> e.status, message |-> e.message]
    ELSE IF e.type = "IntegrityError"
    THEN [status |-> 400, message |-> "Database integrity error"]
    ELSE [status |-> 500, message |-> "Internal server error"]

(* ------------------------------ members ------------------------------- *)
\* faulty variant: the views validate against all ROLE_CHOICES
AcceptedRoles_all_choices == {OWNER, EDITOR, VIEWER}

\* the roles a member view accepts in a request body
AcceptedRoles == {EDITOR, VIEWER}

\* request bodies of the member views
NoEmailKey == -1
MissingRole == "missing"
BadJson == [json |-> FALSE, email |-> NoEmailKey, role |-> MissingRole]
PostBodies ==
    {BadJson} \cup
    [json : {TRUE}, email : {NoEmailKey, UnknownEmail} \cup Users,
     role : {MissingRole, OWNER, EDITOR, VIEWER, BogusRole}]
PutBodies ==
    {BadJson} \cup
    [json : {TRUE}, email : {NoEmailKey},
     role : {MissingRole, OWNER, EDITOR, VIEWER, BogusRole}]

\* data.get('role', DashboardMemberRole.VIEWER)
PostRole(body) == IF body.role = MissingRole THEN VIEWER ELSE body.role

\* faulty variant: the model declares no unique_together
unique_together_absent(d, u) == FALSE

\* unique_together = ['dashboard', 'user']
unique_together_violated(d, u) == MemberRows(d, u) # {}

\* the foreign key DashboardMember.dashboard
dashboard_fk_violated(d) == d \notin DOMAIN dashboards

\* MemberCollectionView.post up to and including the .exists() query of
\* MemberService.add_member
MemberCollectionPost(u, d, body) ==
    LET Unchanged == UNCHANGED <<dashboards, members, nextDashboardId,
                                 nextMemberId, inflight>>
        t == IF body.email \in Users THEN body.email ELSE 0
        Answer(st, msg) ==
            /\ last' = Resp("post_member", u, d, 0, t, body.role, st, msg)
            /\ Unchanged
    IN
    IF u = NoUser THEN LoginRedirect("post_member", d, 0)
    ELSE IF ~check_dashboard_owner_permission(d, u).granted
    THEN Answer(403, "Only dashboard owners can add members")
    ELSE IF ~body.json THEN Answer(400, "Invalid JSON format")
    ELSE IF body.email = NoEmailKey THEN Answer(400, "Email is required")
    ELSE IF PostRole(body) \notin AcceptedRoles
    THEN Answer(400, "Invalid role")
    ELSE IF body.email \notin Users
    THEN Answer(handle_exception(APIError_three_args(
                    "User not found", "user_not_found", 404)).status,
                handle_exception(APIError_three_args(
                    "User not found", "user_not_found", 404)).message)
    ELSE IF MemberRows(d, body.email) # {}
    THEN Answer(handle_exception(APIError_three_args(
                    "already has access", "already_member", 400)).status,
                handle_exception(APIError_three_args(
                    "already has access", "already_member", 400)).message)
    ELSE /\ BagCardinality(inflight) < MaxInflight
         /\ inflight' = inflight (+) SetToBag({
                [dashboard |-> d, user |-> body.email,
                 role |-> PostRole(body), requester |-> u]})
         /\ UNCHANGED <<dashboards, members, nextDashboardId, nextMemberId,
                        last>>

\* DashboardMember.objects.create of MemberService.add_member and the
\* response of MemberCollectionView.post
MemberCollectionPostInsert(r) ==
    /\ BagIn(r, inflight)
    /\ inflight' = inflight (-) SetToBag({r})
    /\ IF dashboard_fk_violated(r.dashboard)
          \/ unique_together_violated(r.dashboard, r.user)
       THEN /\ last' = Resp("post_member", r.requester, r.dashboard, 0,
                            r.user, r.role,
                            handle_exception(IntegrityError).status,
                            handle_exception(IntegrityError).message)
            /\ UNCHANGED <<dashboards, members, nextDashboardId,
                           nextMemberId>>
       ELSE /\ nextMemberId <= MaxMembers
            /\ members' = members @@ (nextMemberId :>
                   [dashboard |-> r.dashboard, user |-> r.user,
                    role |-> r.role])
            /\ nextMemberId' = nextMemberId + 1
            /\ last' = Resp("post_member", r.requester, r.dashboard,
                            nextMemberId, r.user, r.role, 201, "success")
            /\ UNCHANGED <<dashboards, nextDashboardId>>

\* faulty variant: the views do not protect the owner's row
is_owner_row_unprotected(m) == FALSE

\* the test "member.role == DashboardMemberRole.OWNER" of the member views
is_owner_row(m) == members[m].role = OWNER

\* faulty variant: the views do not compare the member's dashboard with the URL's
belongs_elsewhere_unchecked(m, d) == FALSE

\* the test "member.dashboard_id != dashboard_id" of the member views
belongs_elsewhere(m, d) == members[m].dashboard # d

\* MemberService.update_member_role
update_member_role(m, role) == [members EXCEPT ![m].role = role]

\* MemberService.remove_member
remove_member(m) == Remove(members, {m})

\* MemberDetailView.put
MemberDetailPut(u, d, m, body) ==
    LET Answer(st, msg) ==
            /\ last' = Resp("put_member", u, d, m, 0, body.role, st, msg)
            /\ UNCHANGED <<dashboards, members, nextDashboardId,
                           nextMemberId, inflight>>
    IN
    IF u = NoUser THEN LoginRedirect("put_member", d, m)
    ELSE IF ~check_dashboard_owner_permission(d, u).granted
    THEN Answer(403, "Only dashboard owners can update member roles")
    ELSE IF ~body.json THEN Answer(400, "Invalid JSON format")
    ELSE IF body.role = MissingRole THEN Answer(400, "Role is required")
    ELSE IF body.role \notin AcceptedRoles THEN Answer(400, "Invalid role")
    ELSE IF m \notin DOMAIN members
    THEN Answer(handle_exception(APIError("Member not found", 404)).status,
                handle_exception(APIError("Member not found", 404)).message)
    ELSE IF belongs_elsewhere(m, d)
    THEN Answer(404, "Member does not belong to this dashboard")
    ELSE IF is_owner_row(m)
    THEN Answer(403, "Cannot change the role of the dashboard owner")
    ELSE /\ members' = update_member_role(m, body.role)
         /\ last' = Resp("put_member", u, d, m, 0, body.role, 200, "success")
         /\ UNCHANGED <<dashboards, nextDashboardId, nextMemberId, inflight>>

\* MemberDetailView.delete
MemberDetailDelete(u, d, m) ==
    LET Answer(st, msg) ==
            /\ last' = Resp("delete_member", u, d, m, 0, None, st, msg)
            /\ UNCHANGED <<dashboards, members, nextDashboardId,
                           nextMemberId, inflight>>
    IN
    IF u = NoUser THEN LoginRedirect("delete_member", d, m)
    ELSE IF ~check_dashboard_owner_permission(d, u).granted
    THEN Answer(403, "Only dashboard owners can remove members")
    ELSE IF m \notin DOMAIN members
    THEN Answer(handle_exception(APIError("Member not found", 404)).status,
                handle_exception(APIError("Member not found", 404)).message)
    ELSE IF belongs_elsewhere(m, d)
    THEN Answer(404, "Member does not belong to this dashboard")
    ELSE IF is_owner_row(m)
    THEN Answer(403, "Cannot remove the dashboard owner")
    ELSE /\ members' = remove_member(m)
         /\ last' = Resp("delete_member", u, d, m, 0, None, 200,
                         "Member removed successfully")
         /\ UNCHANGED <<dashboards, nextDashboardId, nextMemberId, inflight>>

(* ------------------------------- Next --------------------------------- *)
\* the response is returned to the client
Respond ==
    /\ last # NoResponse
    /\ last' = NoResponse
    /\ UNCHANGED <<dashboards, members, nextDashboardId, nextMemberId,
                   inflight>>

Requesters == Users \cup {NoUser}
Titles == {"", "Sprint 1"}

Next ==
    \/ /\ last = NoResponse
       /\ UNCHANGED <<todoVars, authVars, tagVars, rateVars>>
       /\ \E u \in Requesters, t \in Titles, p \in BOOLEAN,
             insert_fails \in BOOLEAN :
              DashboardCollectionPost(u, t, p, insert_fails)
    \/ /\ last = NoResponse
       /\ UNCHANGED <<todoVars, authVars, tagVars, rateVars>>
       /\ \E u \in Requesters, d \in DashboardIds : DashboardDetailGet(u, d)
    \/ /\ last = NoResponse
       /\ UNCHANGED <<todoVars, authVars, tagVars, rateVars>>
       /\ \E u \in Requesters, d \in DashboardIds, t \in Titles,
             p \in BOOLEAN : DashboardDetailPut(u, d, t, p)
    \/ /\ last = NoResponse
       /\ UNCHANGED <<todoVars, authVars, tagVars, rateVars>>
       /\ \E u \in Requesters, d \in DashboardIds :
              DashboardDetailDelete(u, d)
    \/ /\ last = NoResponse
       /\ UNCHANGED <<todoVars, authVars, tagVars, rateVars>>
       /\ \E u \in Requesters, d \in DashboardIds, b \in PostBodies :
              MemberCollectionPost(u, d, b)
    \/ /\ last = NoResponse
       /\ UNCHANGED <<todoVars, authVars, tagVars, rateVars>>
       /\ \E r \in BagToSet(inflight) : MemberCollectionPostInsert(r)
    \/ /\ last = NoResponse
       /\ UNCHANGED <<todoVars, authVars, tagVars, rateVars>>
       /\ \E u \in Requesters, d \in DashboardIds, m \in MemberIds,
             b \in PutBodies : MemberDetailPut(u, d, m, b)
    \/ /\ last = NoResponse
       /\ UNCHANGED <<todoVars, authVars, tagVars, rateVars>>
       /\ \E u \in Requesters, d \in DashboardIds, m \in MemberIds :
              MemberDetailDelete(u, d, m)
    \/ /\ Respond
       /\ UNCHANGED <<todoVars, authVars, tagVars, rateVars>>

Spec == Init /\ [][Next]_vars

TypeOK ==
    /\ DOMAIN dashboards \subseteq DashboardIds
    /\ DOMAIN members \subseteq MemberIds
    /\ \A m \in DOMAIN members : members[m].role \in ROLE_CHOICES

(* ============================ todo endpoints ========================== *)
TodoIds == 1..MaxTodos

PENDING == "pending"
COMPLETED == "completed"

\* completed_at is NULL
NoTime == -1
\* timezone.now()
timezone_now == clock

\* the attributes of a todo view instance (View.setup and __init__) and of
\* django's HttpRequest that the todo views read
ViewAttributes == {"request", "args", "kwargs", "service", "serializer"}
HttpRequestAttributes ==
    {"method", "user", "body", "headers", "GET", "POST", "META", "COOKIES"}

AttributeError(name) ==
    [type |-> "AttributeError", status |-> 0, message |-> name]
KeyError(name) == [type |-> "KeyError", status |-> 0, message |-> name]
ValueError(msg) == [type |-> "ValueError", status |-> 0, message |-> msg]

\* an exception that escapes the view: django answers 500
UnhandledException(e) == [status |-> 500, message |-> e.message]

\* require_http_methods and login_required are function decorators: their
\* wrapper reads .method (and .user) of its first positional argument.
\* TodoDetailView and TodoActionView put them on methods, whose first
\* positional argument is the view instance.
DecoratedMethodRaises == "method" \notin ViewAttributes

TodoUnchanged == UNCHANGED <<todos, nextTodoId>>

\* TodoService.get_todo
get_todo(t) ==
    IF t \in DOMAIN todos THEN [status |-> 200, message |-> "ok"]
    ELSE handle_exception(APIError("Todo not found", 404))

\* request bodies of POST todos: not JSON, JSON without "title", or a title
NoTitleKey == "<no title key>"
TodoBadJson == "<not json>"
TodoBodies == {TodoBadJson, NoTitleKey, "", "Buy milk"}

\* TodoCollectionView.post with TodoService.create_todo; login_required
\* guards dispatch.  No PermissionService check is made.
TodoCollectionPost(u, d, body) ==
    IF u = NoUser
    THEN /\ todoLast' = TodoResp("post_todo", u, d, 0, 302,
                                 "redirect to login")
         /\ TodoUnchanged
    ELSE IF body = TodoBadJson
    THEN /\ todoLast' = TodoResp("post_todo", u, d, 0, 400,
                                 "Invalid JSON format")
         /\ TodoUnchanged
    ELSE IF body = NoTitleKey
    THEN /\ todoLast' = TodoResp("post_todo", u, d, 0,
                                 handle_exception(KeyError("title")).status,
                                 handle_exception(KeyError("title")).message)
         /\ TodoUnchanged
    ELSE IF dashboard_fk_violated(d)
    THEN /\ todoLast' = TodoResp("post_todo", u, d, 0,
                                 handle_exception(IntegrityError).status,
                                 handle_exception(IntegrityError).message)
         /\ TodoUnchanged
    ELSE /\ nextTodoId <= MaxTodos
         /\ todos' = todos @@
                (nextTodoId :> [dashboard |-> d, title |-> body,
                                status |-> PENDING, completed_by |-> NoUser,
                                completed_at |-> NoTime])
         /\ nextTodoId' = nextTodoId + 1
         /\ todoLast' = TodoResp("post_todo", u, d, nextTodoId, 201,
                                 "success")

\* the body of TodoDetailView.put: request.json() is not an attribute of
\* HttpRequest; past it, TodoService.update_todo sets every key of the body
TodoDetailPutBody(u, d, t, title) ==
    IF u = NoUser
    THEN /\ todoLast' = TodoResp("put_todo", u, d, t, 302,
                                 "redirect to login")
         /\ TodoUnchanged
    ELSE IF "json" \notin HttpRequestAttributes
    THEN /\ todoLast' =
                TodoResp("put_todo", u, d, t,
                         handle_exception(AttributeError("json")).status,
                         handle_exception(AttributeError("json")).message)
         /\ TodoUnchanged
    ELSE IF get_todo(t).status # 200
    THEN /\ todoLast' = TodoResp("put_todo", u, d, t, get_todo(t).status,
                                 get_todo(t).message)
         /\ TodoUnchanged
    ELSE /\ todos' = [todos EXCEPT ![t].title = title]
         /\ todoLast' = TodoResp("put_todo", u, d, t, 200, "success")
         /\ UNCHANGED nextTodoId

\* TodoDetailView.put
TodoDetailPut(u, d, t, title) ==
    IF DecoratedMethodRaises
    THEN /\ todoLast' =
                TodoResp("put_todo", u, d, t,
                         UnhandledException(AttributeError("method")).status,
                         UnhandledException(AttributeError("method")).message)
         /\ TodoUnchanged
    ELSE TodoDetailPutBody(u, d, t, title)

\* the body of TodoDetailView.delete with TodoService.delete_todo
TodoDetailDeleteBody(u, d, t) ==
    IF u = NoUser
    THEN /\ todoLast' = TodoResp("delete_todo", u, d, t, 302,
                                 "redirect to login")
         /\ TodoUnchanged
    ELSE IF get_todo(t).status # 200
    THEN /\ todoLast' = TodoResp("delete_todo", u, d, t, get_todo(t).status,
                                 get_todo(t).message)
         /\ TodoUnchanged
    ELSE /\ todos' = Remove(todos, {t})
         /\ todoLast' = TodoResp("delete_todo", u, d, t, 200,
                                 "Todo deleted successfully")
         /\ UNCHANGED nextTodoId

\* TodoDetailView.delete
TodoDetailDelete(u, d, t) ==
    IF DecoratedMethodRaises
    THEN /\ todoLast' =
                TodoResp("delete_todo", u, d, t,
                         UnhandledException(AttributeError("method")).status,
                         UnhandledException(AttributeError("method")).message)
         /\ TodoUnchanged
    ELSE TodoDetailDeleteBody(u, d, t)

TodoActions == {"complete", "uncomplete", "archive"}

\* TodoService.complete_todo with Todo.complete: the service passes the
\* user's id where Todo.complete assigns a User to completed_by, which
\* raises ValueError before save()
complete_todo(t, user_id) ==
    IF get_todo(t).status # 200 THEN get_todo(t)
    ELSE IF todos[t].status = COMPLETED
    THEN handle_exception(APIError("Todo is already completed", 400))
    ELSE handle_exception(ValueError("Todo.completed_by must be a User"))

\* TodoService.uncomplete_todo up to Todo.uncomplete
uncomplete_todo(t) ==
    IF get_todo(t).status # 200 THEN get_todo(t)
    ELSE IF todos[t].status = PENDING
    THEN handle_exception(APIError("Todo is already pending", 400))
    ELSE [status |-> 200, message |-> "ok"]

\* the body of TodoActionView.post
TodoActionPostBody(u, d, t, action) ==
    IF u = NoUser
    THEN /\ todoLast' = TodoResp(action, u, d, t, 302, "redirect to login")
         /\ TodoUnchanged
    ELSE IF action = "complete"
    THEN /\ todoLast' = TodoResp(action, u, d, t, complete_todo(t, u).status,
                                 complete_todo(t, u).message)
         /\ TodoUnchanged
    ELSE IF action = "uncomplete"
    THEN IF uncomplete_todo(t).status # 200
         THEN /\ todoLast' = TodoResp(action, u, d, t,
                                      uncomplete_todo(t).status,
                                      uncomplete_todo(t).message)
              /\ TodoUnchanged
         ELSE /\ todos' = [todos EXCEPT ![t].status = PENDING,
                                         ![t].completed_by = NoUser,
                                         ![t].completed_at = NoTime]
              /\ todoLast' = TodoResp(action, u, d, t, 200, "success")
              /\ UNCHANGED nextTodoId
    ELSE /\ todoLast' = TodoResp(action, u, d, t, 400, "Invalid action")
         /\ TodoUnchanged

\* TodoActionView.post
TodoActionPost(u, d, t, action) ==
    IF DecoratedMethodRaises
    THEN /\ todoLast' =
                TodoResp(action, u, d, t,
                         UnhandledException(AttributeError("method")).status,
                         UnhandledException(AttributeError("method")).message)
         /\ TodoUnchanged
    ELSE TodoActionPostBody(u, d, t, action)

\* the response is returned to the client
TodoRespond ==
    /\ todoLast # NoTodoResponse
    /\ todoLast' = NoTodoResponse
    /\ TodoUnchanged

\* The todo endpoints are explored from the dashboards Spec reaches when
\* user 1 creates dashboard 1 and may add user 2 to it: user 2 is an
\* editor, a viewer or not a member.
InitTodo ==
    /\ \E p \in BOOLEAN : dashboards = (1 :> [owner |-> 1, is_public |-> p])
    /\ \E rows \in {<<>>} \cup
                   {(2 :> [dashboard |-> 1, user |-> 2, role |-> r]) :
                        r \in AcceptedRoles} :
           /\ members = (1 :> [dashboard |-> 1, user |-> 1, role |-> OWNER])
                            @@ rows
           /\ nextMemberId = 2 + Cardinality(DOMAIN rows)
    /\ nextDashboardId = 2
    /\ inflight = EmptyBag
    /\ last = NoResponse
    /\ TodoInit
    /\ AuthInit
    /\ TagInit
    /\ RateInit

NextTodo ==
    \/ /\ todoLast = NoTodoResponse
       /\ \E u \in Requesters, d \in DashboardIds, b \in TodoBodies :
              TodoCollectionPost(u, d, b)
       /\ UNCHANGED <<dashVars, authVars, tagVars, rateVars>>
    \/ /\ todoLast = NoTodoResponse
       /\ \E u \in Requesters, d \in DashboardIds, t \in TodoIds,
             b \in TodoBodies \ {TodoBadJson, NoTitleKey} :
              TodoDetailPut(u, d, t, b)
       /\ UNCHANGED <<dashVars, authVars, tagVars, rateVars>>
    \/ /\ todoLast = NoTodoResponse
       /\ \E u \in Requesters, d \in DashboardIds, t \in TodoIds :
              TodoDetailDelete(u, d, t)
       /\ UNCHANGED <<dashVars, authVars, tagVars, rateVars>>
    \/ /\ todoLast = NoTodoResponse
       /\ \E u \in Requesters, d \in DashboardIds, t \in TodoIds,
             a \in TodoActions : TodoActionPost(u, d, t, a)
       /\ UNCHANGED <<dashVars, authVars, tagVars, rateVars>>
    \/ /\ TodoRespond
       /\ UNCHANGED <<dashVars, authVars, tagVars, rateVars>>

SpecTodo == InitTodo /\ [][NextTodo]_vars

(* ========================== DashboardService ========================== *)
\* DashboardMember.objects.get(dashboard_id=d, user_id=u)
member_of(d, u) == CHOOSE m \in MemberRows(d, u) : TRUE

\* the outcome of a service call: it returns (200), or raises an exception
\* that handle_exception would answer with this status
ServiceResult(op, d, u, role, outcome) ==
    Resp(op, NoUser, d, 0, u, role, outcome.status, outcome.message)

\* DashboardService.update_member_role
DashboardService_update_member_role(d, u, role) ==
    IF MemberRows(d, u) = {}
    THEN /\ last' = ServiceResult(
                "update_member_role", d, u, role,
                handle_exception(APIError_three_args(
                    "User is not a member of this dashboard", "not_member",
                    404)))
         /\ UNCHANGED <<dashboards, members, nextDashboardId, nextMemberId,
                        inflight>>
    ELSE /\ members' = [members EXCEPT ![member_of(d, u)].role = role]
         /\ last' = ServiceResult("update_member_role", d, u, role,
                                  [status |-> 200, message |-> "returned"])
         /\ UNCHANGED <<dashboards, nextDashboardId, nextMemberId, inflight>>

\* DashboardService.remove_dashboard_member
DashboardService_remove_dashboard_member(d, u) ==
    LET Raise(e) ==
            /\ last' = ServiceResult("remove_dashboard_member", d, u, None,
                                     handle_exception(e))
            /\ UNCHANGED <<dashboards, members, nextDashboardId,
                           nextMemberId, inflight>>
    IN
    IF d \notin DOMAIN dashboards
    THEN Raise(APIError("Dashboard not found", 404))
    ELSE IF MemberRows(d, u) = {}
    THEN Raise(APIError_three_args(
             "User is not a member of this dashboard", "not_member", 404))
    ELSE IF members[member_of(d, u)].role = OWNER
    THEN Raise(APIError_three_args(
             "Cannot remove dashboard owner", "cannot_remove_owner", 400))
    ELSE /\ members' = Remove(members, {member_of(d, u)})
         /\ last' = ServiceResult("remove_dashboard_member", d, u, None,
                                  [status |-> 200, message |-> "returned"])
         /\ UNCHANGED <<dashboards, nextDashboardId, nextMemberId, inflight>>

\* the calls of the member operations of DashboardService, on the
\* dashboards of InitTodo
NextDashboardService ==
    \/ /\ last = NoResponse
       /\ \E d \in DashboardIds, u \in Users, role \in ROLE_CHOICES :
              DashboardService_update_member_role(d, u, role)
       /\ UNCHANGED <<todoVars, authVars, tagVars, rateVars>>
    \/ /\ last = NoResponse
       /\ \E d \in DashboardIds, u \in Users :
              DashboardService_remove_dashboard_member(d, u)
       /\ UNCHANGED <<todoVars, authVars, tagVars, rateVars>>
    \/ /\ Respond
       /\ UNCHANGED <<todoVars, authVars, tagVars, rateVars>>

SpecDashboardService == InitTodo /\ [][NextDashboardService]_vars

(* ============================ tag endpoints =========================== *)
TagIds == 1..MaxTags

TagUnchanged == UNCHANGED <<tags, nextTagId>>

\* request bodies of the tag views: not JSON, JSON without "name", or a name
NoNameKey == "<no name key>"
TagBadJson == "<not json>"
TagBodies == {TagBadJson, NoNameKey, "", "bug", "home"}

\* TagService.get_tag
get_tag(t) ==
    IF t \in DOMAIN tags THEN [status |-> 200, message |-> "ok"]
    ELSE handle_exception(APIError("Tag not found", 404))

\* Tag.Meta.unique_together = ['name', 'dashboard'], for a row other than t
tag_name_taken(d, name, t) ==
    \E o \in DOMAIN tags \ {t} :
        tags[o].dashboard = d /\ tags[o].name = name

\* TagCollectionView.post with TagService.create_tag
TagCollectionPost(u, d, body) ==
    LET Answer(st, msg) ==
            /\ tagLast' = TagResp("post_tag", u, d, 0, st, msg)
            /\ TagUnchanged
    IN
    IF u = NoUser THEN Answer(302, "redirect to login")
    ELSE IF validate_dashboard_edit_permission(d, u).status # 200
    THEN Answer(403, validate_dashboard_edit_permission(d, u).message)
    ELSE IF body = TagBadJson THEN Answer(400, "Invalid JSON format")
    ELSE IF body = NoNameKey \/ body = ""
    THEN Answer(400, "Tag name is required")
    ELSE IF tag_name_taken(d, body, 0)
    THEN Answer(400, "Tag with this name already exists in this dashboard")
    ELSE /\ nextTagId <= MaxTags
         /\ tags' = tags @@ (nextTagId :> [dashboard |-> d, name |-> body])
         /\ nextTagId' = nextTagId + 1
         /\ tagLast' = TagResp("post_tag", u, d, nextTagId, 200, "success")

\* TagDetailView.get
TagDetailGet(u, d, t) ==
    LET Answer(st, msg) ==
            /\ tagLast' = TagResp("get_tag", u, d, t, st, msg)
            /\ TagUnchanged
    IN
    IF u = NoUser THEN Answer(302, "redirect to login")
    ELSE IF validate_dashboard_access(d, u).status # 200
    THEN Answer(403, validate_dashboard_access(d, u).message)
    ELSE IF get_tag(t).status # 200
    THEN Answer(get_tag(t).status, get_tag(t).message)
    ELSE Answer(200, "success")

\* TagDetailView.put with TagService.update_tag: the permission is
\* validated for the dashboard of the URL, the tag is fetched by its id
TagDetailPut(u, d, t, body) ==
    LET Answer(st, msg) ==
            /\ tagLast' = TagResp("put_tag", u, d, t, st, msg)
            /\ TagUnchanged
    IN
    IF u = NoUser THEN Answer(302, "redirect to login")
    ELSE IF validate_dashboard_edit_permission(d, u).status # 200
    THEN Answer(403, validate_dashboard_edit_permission(d, u).message)
    ELSE IF body = TagBadJson THEN Answer(400, "Invalid JSON format")
    ELSE IF get_tag(t).status # 200
    THEN Answer(get_tag(t).status, get_tag(t).message)
    ELSE IF body = NoNameKey THEN Answer(200, "success")
    ELSE IF tag_name_taken(tags[t].dashboard, body, t)
    THEN Answer(handle_exception(IntegrityError).status,
                handle_exception(IntegrityError).message)
    ELSE /\ tags' = [tags EXCEPT ![t].name = body]
         /\ tagLast' = TagResp("put_tag", u, d, t, 200, "success")
         /\ UNCHANGED nextTagId

\* TagDetailView.delete with TagService.delete_tag
TagDetailDelete(u, d, t) ==
    LET Answer(st, msg) ==
            /\ tagLast' = TagResp("delete_tag", u, d, t, st, msg)
            /\ TagUnchanged
    IN
    IF u = NoUser THEN Answer(302, "redirect to login")
    ELSE IF validate_dashboard_edit_permission(d, u).status # 200
    THEN Answer(403, validate_dashboard_edit_permission(d, u).message)
    ELSE IF get_tag(t).status # 200
    THEN Answer(get_tag(t).status, get_tag(t).message)
    ELSE /\ tags' = Remove(tags, {t})
         /\ tagLast' = TagResp("delete_tag", u, d, t, 200,
                               "Tag deleted successfully")
         /\ UNCHANGED nextTagId

\* the response is returned to the client
TagRespond ==
    /\ tagLast # NoTagResponse
    /\ tagLast' = NoTagResponse
    /\ TagUnchanged

\* The tag endpoints are explored from the dashboards Spec reaches when
\* user 1 creates dashboard 1, user 2 creates dashboard 2 and user 1 may
\* add user 2 to dashboard 1.
InitTag ==
    /\ \E p \in BOOLEAN :
           dashboards = (1 :> [owner |-> 1, is_public |-> p]) @@
                        (2 :> [owner |-> 2, is_public |-> FALSE])
    /\ \E rows \in {<<>>} \cup
                   {(3 :> [dashboard |-> 1, user |-> 2, role |-> r]) :
                        r \in AcceptedRoles} :
           /\ members = (1 :> [dashboard |-> 1, user |-> 1, role |-> OWNER])
                         @@ (2 :> [dashboard |-> 2, user |-> 2,
                                   role |-> OWNER])
                         @@ rows
           /\ nextMemberId = 3 + Cardinality(DOMAIN rows)
    /\ nextDashboardId = 3
    /\ inflight = EmptyBag
    /\ last = NoResponse
    /\ TodoInit
    /\ AuthInit
    /\ TagInit
    /\ RateInit

NextTag ==
    \/ /\ tagLast = NoTagResponse
       /\ \E u \in Requesters, d \in DashboardIds, b \in TagBodies :
              TagCollectionPost(u, d, b)
       /\ UNCHANGED <<dashVars, todoVars, authVars, rateVars>>
    \/ /\ tagLast = NoTagResponse
       /\ \E u \in Requesters, d \in DashboardIds, t \in TagIds :
              TagDetailGet(u, d, t)
       /\ UNCHANGED <<dashVars, todoVars, authVars, rateVars>>
    \/ /\ tagLast = NoTagResponse
       /\ \E u \in Requesters, d \in DashboardIds, t \in TagIds,
             b \in TagBodies : TagDetailPut(u, d, t, b)
       /\ UNCHANGED <<dashVars, todoVars, authVars, rateVars>>
    \/ /\ tagLast = NoTagResponse
       /\ \E u \in Requesters, d \in DashboardIds, t \in TagIds :
              TagDetailDelete(u, d, t)
       /\ UNCHANGED <<dashVars, todoVars, authVars, rateVars>>
    \/ /\ TagRespond
       /\ UNCHANGED <<dashVars, todoVars, authVars, rateVars>>

SpecTag == InitTag /\ [][NextTag]_vars

(* ============================= TodoService ============================ *)
\* the data dict of TodoService.update_todo: for each attribute either no
\* such key (Absent...) or the value to set; None is NoUser / NoTime
AbsentKey == "<absent>"
AbsentId == -1
AbsentTime == -2
TodoUpdates ==
    [title : {AbsentKey, "Renamed"},
     status : {AbsentKey, PENDING, COMPLETED},
     completed_by_id : {AbsentId, NoUser, 1},
     completed_at : {AbsentTime, NoTime, 0}]

\* "for key, value in data.items(): setattr(todo, key, value)"
setattr_all(todo, data) ==
    [dashboard |-> todo.dashboard,
     title |-> IF data.title = AbsentKey THEN todo.title ELSE data.title,
     status |-> IF data.status = AbsentKey THEN todo.status ELSE data.status,
     completed_by |-> IF data.completed_by_id = AbsentId
                      THEN todo.completed_by ELSE data.completed_by_id,
     completed_at |-> IF data.completed_at = AbsentTime
                      THEN todo.completed_at ELSE data.completed_at]

\* TodoService.create_todo called with a title
TodoService_create_todo(d, title) ==
    IF dashboard_fk_violated(d)
    THEN /\ todoLast' = TodoResp("create_todo", NoUser, d, 0,
                                 handle_exception(IntegrityError).status,
                                 handle_exception(IntegrityError).message)
         /\ TodoUnchanged
    ELSE /\ nextTodoId <= MaxTodos
         /\ todos' = todos @@
                (nextTodoId :> [dashboard |-> d, title |-> title,
                                status |-> PENDING, completed_by |-> NoUser,
                                completed_at |-> NoTime])
         /\ nextTodoId' = nextTodoId + 1
         /\ todoLast' = TodoResp("create_todo", NoUser, d, nextTodoId, 200,
                                 "created")

\* TodoService.update_todo
TodoService_update_todo(t, data) ==
    IF get_todo(t).status # 200
    THEN /\ todoLast' = TodoResp("update_todo", NoUser, 0, t,
                                 get_todo(t).status, get_todo(t).message)
         /\ TodoUnchanged
    ELSE /\ todos' = [todos EXCEPT ![t] = setattr_all(@, data)]
         /\ todoLast' = TodoResp("update_todo", NoUser, 0, t, 200, "updated")
         /\ UNCHANGED nextTodoId

\* TodoService.complete_todo: Todo.complete raises before its save()
TodoService_complete_todo(t, user_id) ==
    /\ todoLast' = TodoResp("complete_todo", user_id, 0, t,
                            complete_todo(t, user_id).status,
                            complete_todo(t, user_id).message)
    /\ TodoUnchanged

\* TodoService.uncomplete_todo with Todo.uncomplete
TodoService_uncomplete_todo(t) ==
    IF uncomplete_todo(t).status # 200
    THEN /\ todoLast' = TodoResp("uncomplete_todo", NoUser, 0, t,
                                 uncomplete_todo(t).status,
                                 uncomplete_todo(t).message)
         /\ TodoUnchanged
    ELSE /\ todos' = [todos EXCEPT ![t].status = PENDING,
                                    ![t].completed_by = NoUser,
                                    ![t].completed_at = NoTime]
         /\ todoLast' = TodoResp("uncomplete_todo", NoUser, 0, t, 200,
                                 "uncompleted")
         /\ UNCHANGED nextTodoId

\* the calls of the TodoService methods, on the dashboards of InitTodo
NextTodoService ==
    \/ /\ todoLast = NoTodoResponse
       /\ \E d \in DashboardIds : TodoService_create_todo(d, "Buy milk")
       /\ UNCHANGED <<dashVars, authVars, tagVars, rateVars>>
    \/ /\ todoLast = NoTodoResponse
       /\ \E t \in TodoIds, data \in TodoUpdates :
              TodoService_update_todo(t, data)
       /\ UNCHANGED <<dashVars, authVars, tagVars, rateVars>>
    \/ /\ todoLast = NoTodoResponse
       /\ \E t \in TodoIds, u \in Users : TodoService_complete_todo(t, u)
       /\ UNCHANGED <<dashVars, authVars, tagVars, rateVars>>
    \/ /\ todoLast = NoTodoResponse
       /\ \E t \in TodoIds : TodoService_uncomplete_todo(t)
       /\ UNCHANGED <<dashVars, authVars, tagVars, rateVars>>
    \/ /\ TodoRespond
       /\ UNCHANGED <<dashVars, authVars, tagVars, rateVars>>

SpecTodoService == InitTodo /\ [][NextTodoService]_vars

(* ======================= todo_api authentication ====================== *)
\* TokenType
ACCESS == "access"
REFRESH == "refresh"

\* JWTService.Config, in minutes
ACCESS_TOKEN_EXPIRATION == 15
REFRESH_TOKEN_EXPIRATION == 7 * 24 * 60

UserIds == 1..MaxUsers
Usernames == {"", "alice", "bob"}

\* PasswordService
ALLOWED_DIGITS == {"1", "2", "3", "4", "5"}
PASSWORD_LENGTH == 5
Digits == {"0", "1", "2", "3", "4", "5", "6", "7", "8", "9"}

validate_password(password) ==
    /\ Len(password) = PASSWORD_LENGTH
    /\ \A i \in 1..Len(password) : password[i] \in Digits
    /\ \A i \in 1..Len(password) : password[i] \in ALLOWED_DIGITS

Passwords ==
    {<<>>, <<"1", "2", "3", "4", "5">>, <<"1", "2", "3">>,
     <<"1", "2", "3", "4", "9">>, <<"1", "2", "3", "4", "x">>}

\* what a client can send where a token is expected: nothing, a token the
\* service issued, or a string that is not a JWT signed with SECRET_KEY
EmptyString == [type |-> "empty", user_id |-> NoUser, exp |-> 0,
                username |-> ""]
Garbage == [type |-> "garbage", user_id |-> NoUser, exp |-> 0,
            username |-> ""]
Presentable == issued \cup {Garbage}

\* the Authorization header
NoHeader == [scheme |-> "", token |-> EmptyString]
Headers ==
    {NoHeader} \cup
    [scheme : {"Bearer"}, token : Presentable \cup {EmptyString}] \cup
    [scheme : {"Basic"}, token : {Garbage}]

startswith_Bearer(auth_header) == auth_header.scheme = "Bearer"

\* the auth_tokens cookie: absent, or JSON with the two token fields
NoCookie == [present |-> FALSE, access_token |-> EmptyString,
             refresh_token |-> EmptyString]
Cookies ==
    {NoCookie} \cup
    [present : {TRUE}, access_token : Presentable,
     refresh_token : Presentable]

\* django cache
cache_get(key) ==
    IF key \in DOMAIN cache /\ clock < cache[key].expires
    THEN cache[key].value
    ELSE NoToken

cache_set(c, key, value, timeout) ==
    [k \in DOMAIN c \cup {key} |->
        IF k = key THEN [value |-> value, expires |-> clock + timeout]
        ELSE c[k]]

cache_delete(c, key) == Remove(c, {key})

\* JWTService.invalidate_user_tokens
invalidate_user_tokens(c, user_id) == cache_delete(c, user_id)

\* JWTService._create_token_payload
create_token_payload(user, expiration, token_type) ==
    [type |-> token_type, user_id |-> user.id, exp |-> expiration,
     username |-> IF token_type = ACCESS THEN user.username ELSE ""]

\* JWTService._create_token: HS256 of the payload, so equal payloads give
\* equal tokens
create_token(user, token_type, expiration_delta) ==
    create_token_payload(user, current_time + expiration_delta, token_type)

\* JWTService._store_refresh_token (faulty variant: stores the access token)
store_refresh_token_wrong_token(c, user, refresh_token) ==
    cache_set(c, user.id,
              create_token(user, ACCESS, ACCESS_TOKEN_EXPIRATION),
              REFRESH_TOKEN_EXPIRATION)

\* JWTService._store_refresh_token
store_refresh_token(c, user, refresh_token) ==
    cache_set(c, user.id, refresh_token, REFRESH_TOKEN_EXPIRATION)

\* JWTService.generate_token_pair: the pair, and the cache after it
generate_token_pair(c, user) ==
    [access_token |-> create_token(user, ACCESS, ACCESS_TOKEN_EXPIRATION),
     refresh_token |-> create_token(user, REFRESH, REFRESH_TOKEN_EXPIRATION),
     cache |-> store_refresh_token(
                   c, user,
                   create_token(user, REFRESH, REFRESH_TOKEN_EXPIRATION))]

\* jwt.decode with SECRET_KEY: only tokens the service signed verify, and
\* only while exp lies in the future
decode(token, now) ==
    IF token \notin issued THEN "InvalidTokenError"
    ELSE IF token.exp <= now THEN "ExpiredSignatureError"
    ELSE "ok"

\* JWTService.decode_token
decode_token(token) == decode(token, clock)

\* JWTService.verify_token
verify_token(token, expected_type) ==
    IF decode_token(token) = "ok" THEN token.type = expected_type ELSE FALSE

\* JWTService.get_user_id_from_token: None (NoUser) when decoding fails;
\* the token's type is not looked at
get_user_id_from_token(token) ==
    IF decode_token(token) = "ok" THEN token.user_id ELSE NoUser

\* User.objects.get(id=...)
user_exists(user_id) == user_id \in DOMAIN users
User(user_id) == [id |-> user_id, username |-> users[user_id].username]

(* ------------------------------ auth views ---------------------------- *)
Methods == {"GET", "POST"}

AuthBadJson == [json |-> FALSE, username |-> "", password |-> <<>>]
Credentials ==
    {AuthBadJson} \cup
    [json : {TRUE}, username : Usernames, password : Passwords]

AuthError(op, presented, st, msg) ==
    /\ authLast' = AuthResp(op, presented, NoUser, st, msg, NoToken, NoToken)
    /\ UNCHANGED <<users, nextUserId, cache, issued, handed>>

username_taken(username) ==
    \E id \in DOMAIN users : users[id].username = username

\* django.contrib.auth.authenticate: the user's id, or NoUser
authenticate(username, password) ==
    IF \E id \in DOMAIN users : /\ users[id].username = username
                                /\ users[id].password = password
    THEN CHOOSE id \in DOMAIN users : /\ users[id].username = username
                                      /\ users[id].password = password
    ELSE NoUser

\* what the clients keep of a user's sessions: the refresh tokens the
\* user's logins returned, oldest first (the first MaxLogins of them), and
\* whether the user has logged out since the last pair was issued
NewSession == [logins |-> <<>>, logged_out |-> FALSE]

Issued(h, user_id, by_login, refresh_token) ==
    [id \in DOMAIN h \cup {user_id} |->
        IF id # user_id THEN h[id]
        ELSE LET old == IF id \in DOMAIN h THEN h[id] ELSE NewSession
             IN [logins |-> IF by_login /\ Len(old.logins) < MaxLogins
                            THEN Append(old.logins, refresh_token)
                            ELSE old.logins,
                 logged_out |-> FALSE]]

LoggedOut(h, user_id) ==
    [id \in DOMAIN h |->
        IF id = user_id THEN [h[id] EXCEPT !.logged_out = TRUE] ELSE h[id]]

\* views_auth.register, past the rate_limit wrapper
register(method, data) ==
    IF method # "POST"
    THEN AuthError("register", NoToken, 405, "Method not allowed")
    ELSE IF ~data.json
    THEN AuthError("register", NoToken, 400, "Invalid JSON data")
    ELSE IF data.username = "" \/ data.password = <<>>
    THEN AuthError("register", NoToken, 400,
                   "Username and password are required")
    ELSE IF ~validate_password(data.password)
    THEN AuthError("register", NoToken, 400, "invalid password")
    ELSE IF username_taken(data.username)
    THEN AuthError("register", NoToken, 400, "username is already taken")
    ELSE LET user == [id |-> nextUserId, username |-> data.username]
             pair == generate_token_pair(cache, user)
         IN /\ nextUserId <= MaxUsers
            /\ users' = users @@ (nextUserId :>
                   [username |-> data.username, password |-> data.password])
            /\ nextUserId' = nextUserId + 1
            /\ cache' = pair.cache
            /\ issued' = issued \cup {pair.access_token, pair.refresh_token}
            /\ handed' = Issued(handed, user.id, FALSE, pair.refresh_token)
            /\ authLast' = AuthResp("register", NoToken, user.id, 201,
                                    "Registration successful",
                                    pair.access_token, pair.refresh_token)

\* views_auth.login_view, past the rate_limit wrapper
login_view(method, data) ==
    IF method # "POST"
    THEN AuthError("login", NoToken, 405, "Method not allowed")
    ELSE IF ~data.json
    THEN AuthError("login", NoToken, 400, "Invalid JSON data")
    ELSE IF data.username = "" \/ data.password = <<>>
    THEN AuthError("login", NoToken, 400,
                   "Username and password are required")
    ELSE IF authenticate(data.username, data.password) = NoUser
    THEN AuthError("login", NoToken, 401, "Invalid credentials provided")
    ELSE LET user == User(authenticate(data.username, data.password))
             pair == generate_token_pair(
                         invalidate_user_tokens(cache, user.id), user)
         IN /\ cache' = pair.cache
            /\ issued' = issued \cup {pair.access_token, pair.refresh_token}
            /\ handed' = Issued(handed, user.id, TRUE, pair.refresh_token)
            /\ authLast' = AuthResp("login", NoToken, user.id, 200,
                                    "Authentication successful",
                                    pair.access_token, pair.refresh_token)
            /\ UNCHANGED <<users, nextUserId>>

\* views_auth.logout_view
logout_view(method, auth_header) ==
    IF method # "POST"
    THEN AuthError("logout", auth_header.token, 405, "Method not allowed")
    ELSE IF ~startswith_Bearer(auth_header)
    THEN AuthError("logout", auth_header.token, 401,
                   "Invalid authorization header format")
    ELSE IF auth_header.token = EmptyString
    THEN AuthError("logout", auth_header.token, 401, "No token provided")
    ELSE IF get_user_id_from_token(auth_header.token) = NoUser
    THEN AuthError("logout", auth_header.token, 401,
                   "Invalid token: no user ID found")
    ELSE LET user_id == get_user_id_from_token(auth_header.token)
         IN /\ cache' = invalidate_user_tokens(cache, user_id)
            /\ handed' = LoggedOut(handed, user_id)
            /\ authLast' = AuthResp("logout", auth_header.token, user_id,
                                    200, "Successfully logged out",
                                    NoToken, NoToken)
            /\ UNCHANGED <<users, nextUserId, issued>>

\* the attributes of JWTService (faulty variant: with a cookie reader)
JWTServiceAttributes_with_get_token_from_cookie ==
    {"Config", "invalidate_user_tokens", "invalidate_token",
     "get_user_id_from_token", "extract_token_from_auth_header",
     "generate_token_pair", "set_token_cookies", "clear_token_cookies",
     "verify_token", "decode_token", "get_token_from_cookie"}

\* the attributes of the JWTService instance the views call
JWTServiceAttributes ==
    {"Config", "invalidate_user_tokens", "invalidate_token",
     "get_user_id_from_token", "extract_token_from_auth_header",
     "generate_token_pair", "set_token_cookies", "clear_token_cookies",
     "verify_token", "decode_token"}

\* views_auth.refresh_token_view: it reads the token with
\* jwt_service.get_token_from_cookie(request, TokenType.REFRESH), outside
\* any try block
refresh_token_view(method, cookie) ==
    IF method # "POST"
    THEN AuthError("refresh", cookie.refresh_token, 405,
                   "Method not allowed")
    ELSE IF "get_token_from_cookie" \notin JWTServiceAttributes
    THEN AuthError("refresh", cookie.refresh_token,
                   UnhandledException(
                       AttributeError("get_token_from_cookie")).status,
                   UnhandledException(
                       AttributeError("get_token_from_cookie")).message)
    ELSE IF ~cookie.present
    THEN AuthError("refresh", cookie.refresh_token, 401,
                   "Refresh token not found")
    ELSE IF get_user_id_from_token(cookie.refresh_token) = NoUser
    THEN AuthError("refresh", cookie.refresh_token, 401,
                   "Invalid refresh token: no user ID found")
    ELSE IF ~user_exists(get_user_id_from_token(cookie.refresh_token))
    THEN AuthError("refresh", cookie.refresh_token, 401,
                   "User not found")
    ELSE LET user == User(get_user_id_from_token(cookie.refresh_token))
             pair == generate_token_pair(cache, user)
         IN /\ cache' = pair.cache
            /\ issued' = issued \cup {pair.access_token, pair.refresh_token}
            /\ handed' = Issued(handed, user.id, FALSE, pair.refresh_token)
            /\ authLast' = AuthResp("refresh", cookie.refresh_token, user.id,
                                    200, "Tokens refreshed successfully",
                                    pair.access_token, pair.refresh_token)
            /\ UNCHANGED <<users, nextUserId>>

\* the token verify_token_view looks at: the bearer token, else the
\* cookie's access_token, else nothing
verify_token_source(auth_header, cookie) ==
    IF startswith_Bearer(auth_header) /\ auth_header.token # EmptyString
    THEN auth_header.token
    ELSE IF cookie.present THEN cookie.access_token
    ELSE EmptyString

\* views_auth.verify_token_view, past the rate_limit wrapper
verify_token_view(method, auth_header, cookie) ==
    LET token == verify_token_source(auth_header, cookie)
    IN IF method # "GET"
       THEN AuthError("verify", token, 405, "Method not allowed")
       ELSE IF token = EmptyString
       THEN AuthError("verify", token, 401, "No token provided in request")
       ELSE IF get_user_id_from_token(token) = NoUser
       THEN AuthError("verify", token, 401,
                      "Invalid token: no user ID found")
       ELSE IF ~user_exists(get_user_id_from_token(token))
       THEN AuthError("verify", token, 401, "User not found")
       ELSE /\ authLast' = AuthResp("verify", token,
                                    get_user_id_from_token(token), 200,
                                    "Token is valid", NoToken, NoToken)
            /\ UNCHANGED <<users, nextUserId, cache, issued, handed>>

\* jwt_authentication_required (faulty variant: the type is not checked)
jwt_authentication_required_any_type(auth_header) ==
    IF ~startswith_Bearer(auth_header)
    THEN [status |-> 401, message |-> "No token provided", user |-> NoUser]
    ELSE IF decode(auth_header.token, clock) = "ExpiredSignatureError"
    THEN [status |-> 401, message |-> "Token expired", user |-> NoUser]
    ELSE IF decode(auth_header.token, clock) = "InvalidTokenError"
    THEN [status |-> 401, message |-> "Invalid token", user |-> NoUser]
    ELSE IF ~user_exists(auth_header.token.user_id)
    THEN [status |-> 401, message |-> "Invalid token", user |-> NoUser]
    ELSE [status |-> 200, message |-> "view_func",
          user |-> auth_header.token.user_id]

\* jwt_authentication_required: the 401 it answers, or request.user when
\* it calls view_func
jwt_authentication_required(auth_header) ==
    IF ~startswith_Bearer(auth_header)
    THEN [status |-> 401, message |-> "No token provided", user |-> NoUser]
    ELSE IF decode(auth_header.token, clock) = "ExpiredSignatureError"
    THEN [status |-> 401, message |-> "Token expired", user |-> NoUser]
    ELSE IF decode(auth_header.token, clock) = "InvalidTokenError"
    THEN [status |-> 401, message |-> "Invalid token", user |-> NoUser]
    ELSE IF auth_header.token.type # ACCESS
    THEN [status |-> 401, message |-> "Invalid token type", user |-> NoUser]
    ELSE IF ~user_exists(auth_header.token.user_id)
    THEN [status |-> 401, message |-> "Invalid token", user |-> NoUser]
    ELSE [status |-> 200, message |-> "view_func",
          user |-> auth_header.token.user_id]

\* views_tasks.task_items, GET: the gate, then the list of request.user's
\* tasks
task_items(auth_header) ==
    LET gate == jwt_authentication_required(auth_header)
    IN /\ authLast' = AuthResp("task_items", auth_header.token, gate.user,
                               gate.status,
                               IF gate.status = 200 THEN "items"
                               ELSE gate.message,
                               NoToken, NoToken)
       /\ UNCHANGED <<users, nextUserId, cache, issued, handed>>

\* a user is deleted (django admin); the user's rows cascade, the cache is
\* not touched
DeleteUser(user_id) ==
    /\ user_id \in DOMAIN users
    /\ users' = Remove(users, {user_id})
    /\ UNCHANGED <<nextUserId, cache, issued, handed, authLast>>

\* time passes; cache entries past their timeout are gone
Tick(dt) ==
    /\ ticks < MaxTicks
    /\ ticks' = ticks + 1
    /\ clock' = clock + dt
    /\ cache' = [k \in {k \in DOMAIN cache : clock + dt < cache[k].expires}
                    |-> cache[k]]
    /\ UNCHANGED <<users, nextUserId, issued, handed, current_time,
                   authLast>>

\* the response is returned to the client
AuthRespond ==
    /\ authLast # NoAuthResponse
    /\ authLast' = NoAuthResponse
    /\ UNCHANGED <<users, nextUserId, cache, issued, handed>>

TimeUnchanged == UNCHANGED <<clock, ticks, current_time>>

InitAuth ==
    /\ dashboards = <<>>
    /\ members = <<>>
    /\ nextDashboardId = 1
    /\ nextMemberId = 1
    /\ inflight = EmptyBag
    /\ last = NoResponse
    /\ TodoInit
    /\ AuthInit
    /\ TagInit
    /\ RateInit

NextAuth ==
    \/ /\ authLast = NoAuthResponse
       /\ \E m \in Methods, data \in Credentials : register(m, data)
       /\ TimeUnchanged
       /\ UNCHANGED <<dashVars, todoVars, tagVars, rateVars>>
    \/ /\ authLast = NoAuthResponse
       /\ \E m \in Methods, data \in Credentials : login_view(m, data)
       /\ TimeUnchanged
       /\ UNCHANGED <<dashVars, todoVars, tagVars, rateVars>>
    \/ /\ authLast = NoAuthResponse
       /\ \E m \in Methods, h \in Headers : logout_view(m, h)
       /\ TimeUnchanged
       /\ UNCHANGED <<dashVars, todoVars, tagVars, rateVars>>
    \/ /\ authLast = NoAuthResponse
       /\ \E m \in Methods, c \in Cookies : refresh_token_view(m, c)
       /\ TimeUnchanged
       /\ UNCHANGED <<dashVars, todoVars, tagVars, rateVars>>
    \/ /\ authLast = NoAuthResponse
       /\ \E m \in Methods, h \in Headers, c \in Cookies :
              verify_token_view(m, h, c)
       /\ TimeUnchanged
       /\ UNCHANGED <<dashVars, todoVars, tagVars, rateVars>>
    \/ /\ authLast = NoAuthResponse
       /\ \E h \in Headers : task_items(h)
       /\ TimeUnchanged
       /\ UNCHANGED <<dashVars, todoVars, tagVars, rateVars>>
    \/ /\ authLast = NoAuthResponse
       /\ \E u \in UserIds : DeleteUser(u)
       /\ TimeUnchanged
       /\ UNCHANGED <<dashVars, todoVars, tagVars, rateVars>>
    \/ /\ authLast = NoAuthResponse
       /\ \E dt \in {10, REFRESH_TOKEN_EXPIRATION} : Tick(dt)
       /\ UNCHANGED <<dashVars, todoVars, tagVars, rateVars>>
    \/ /\ AuthRespond
       /\ TimeUnchanged
       /\ UNCHANGED <<dashVars, todoVars, tagVars, rateVars>>

SpecAuth == InitAuth /\ [][NextAuth]_vars

(* ============================ rate limiting =========================== *)
\* @rate_limit('login', limit=10, period=60): the period in minutes
LOGIN_LIMIT == 10
LOGIN_PERIOD == 1

\* HTTP_X_FORWARDED_FOR or REMOTE_ADDR of the requests
ClientIps == {"203.0.113.7"}

\* key = f"{key_prefix}:{client_ip}"
rate_key(key_prefix, client_ip) == <<key_prefix, client_ip>>

\* cache.get(key, 0)
rate_cache_get(key) ==
    IF key \in DOMAIN rateCache /\ clock < rateCache[key].expires
    THEN rateCache[key].value
    ELSE 0

\* cache.set(key, value, timeout=period)
rate_cache_set(key, value, period) ==
    [k \in DOMAIN rateCache \cup {key} |->
        IF k = key THEN [value |-> value, expires |-> clock + period]
        ELSE rateCache[k]]

\* faulty variant: the limit is compared with ">"
rate_limit_exceeded_off_by_one(requests_made, limit) == requests_made > limit

\* the test "requests_made >= limit" of wrapped_view
rate_limit_exceeded(requests_made, limit) == requests_made >= limit

\* one more request of this key has reached the wrapped view
Reached(key) ==
    [k \in DOMAIN reached \cup {key} |->
        IF k = key
        THEN (IF k \in DOMAIN reached THEN reached[k] ELSE 0) + 1
        ELSE reached[k]]

\* wrapped_view of rate_limit('login', ...) up to and including
\* "requests_made = cache.get(key, 0)"
wrapped_view_get(client_ip) ==
    /\ BagCardinality(rateInflight) < MaxInflight
    /\ rateInflight' = rateInflight (+) SetToBag({
           [key |-> rate_key("login", client_ip),
            requests_made |-> rate_cache_get(rate_key("login", client_ip))]})
    /\ UNCHANGED <<rateCache, reached>>
    /\ UNCHANGED <<users, nextUserId, cache, issued, handed, authLast>>

\* wrapped_view of rate_limit('login', ...) from the test of the limit on:
\* the 429, or cache.set and the call of login_view
wrapped_view_login(r, method, data) ==
    /\ BagIn(r, rateInflight)
    /\ rateInflight' = rateInflight (-) SetToBag({r})
    /\ IF rate_limit_exceeded(r.requests_made, LOGIN_LIMIT)
       THEN /\ AuthError("login", NoToken, 429,
                         "Too many requests. Please try again later.")
            /\ UNCHANGED <<rateCache, reached>>
       ELSE /\ rateCache' = rate_cache_set(r.key, r.requests_made + 1,
                                           LOGIN_PERIOD)
            /\ reached' = Reached(r.key)
            /\ login_view(method, data)

\* time passes; cache entries past their timeout are gone
RateTick(dt) ==
    /\ Tick(dt)
    /\ rateCache' = [k \in {k \in DOMAIN rateCache :
                                clock + dt < rateCache[k].expires}
                        |-> rateCache[k]]
    /\ reached' = [k \in {k \in DOMAIN reached :
                              /\ k \in DOMAIN rateCache
                              /\ clock + dt < rateCache[k].expires}
                      |-> reached[k]]
    /\ UNCHANGED rateInflight

\* the credentials of the registered user, and a wrong password
RateCredentials ==
    [json : {TRUE}, username : {"alice"},
     password : {<<"1", "2", "3", "4", "5">>, <<"1", "2", "3">>}]

\* The rate limiter is explored from the state SpecAuth reaches when
\* "alice" registers as the process starts and ten minutes pass: the
\* counter of the registration has expired.
InitRate ==
    /\ dashboards = <<>>
    /\ members = <<>>
    /\ nextDashboardId = 1
    /\ nextMemberId = 1
    /\ inflight = EmptyBag
    /\ last = NoResponse
    /\ TodoInit
    /\ TagInit
    /\ RateInit
    /\ users = (1 :> [username |-> "alice",
                      password |-> <<"1", "2", "3", "4", "5">>])
    /\ nextUserId = 2
    /\ current_time = 0
    /\ clock = 10
    /\ ticks = 1
    /\ LET user == [id |-> 1, username |-> "alice"]
           refresh_token == [type |-> REFRESH, user_id |-> 1,
                             exp |-> REFRESH_TOKEN_EXPIRATION,
                             username |-> ""]
           access_token == [type |-> ACCESS, user_id |-> 1,
                            exp |-> ACCESS_TOKEN_EXPIRATION,
                            username |-> "alice"]
       IN /\ cache = (1 :> [value |-> refresh_token,
                            expires |-> REFRESH_TOKEN_EXPIRATION])
          /\ issued = {access_token, refresh_token}
          /\ handed = (1 :> NewSession)
    /\ authLast = NoAuthResponse

NextRate ==
    \/ /\ authLast = NoAuthResponse
       /\ \E ip \in ClientIps : wrapped_view_get(ip)
       /\ TimeUnchanged
       /\ UNCHANGED <<dashVars, todoVars, tagVars>>
    \/ /\ authLast = NoAuthResponse
       /\ \E r \in BagToSet(rateInflight), data \in RateCredentials :
              wrapped_view_login(r, "POST", data)
       /\ TimeUnchanged
       /\ UNCHANGED <<dashVars, todoVars, tagVars>>
    \/ /\ authLast = NoAuthResponse
       /\ RateTick(LOGIN_PERIOD)
       /\ UNCHANGED <<dashVars, todoVars, tagVars>>
    \/ /\ AuthRespond
       /\ TimeUnchanged
       /\ UNCHANGED <<dashVars, todoVars, tagVars, rateVars>>

SpecRate == InitRate /\ [][NextRate]_vars

(* ======================= membership invariants ======================== *)
OwnerRows(d) == {m \in get_dashboard_members(d) : members[m].role = OWNER}

MemberOps == {"post_member", "put_member", "delete_member"}

\* C1: every existing dashboard has exactly one membership row with role
\* 'owner', and that row's user is the dashboard's owner reference, in every
\* state reachable by dashboard creation, member add, role change, member
\* removal and dashboard deletion.
C1_ExactlyOneOwnerRow ==
    \A d \in DOMAIN dashboards :
        /\ Cardinality(OwnerRows(d)) = 1
        /\ \A m \in OwnerRows(d) : members[m].user = dashboards[d].owner

\* a member request has just succeeded on a dashboard that has a member
\* besides its owner
C1_Witness ==
    /\ last.op \in {"put_member", "post_member"}
    /\ last.status \in {200, 201}
    /\ last.dashboard_id \in DOMAIN dashboards
    /\ Cardinality(get_dashboard_members(last.dashboard_id)) = 2

\* C2: immediately after create_dashboard succeeds for user U, U's role on
\* the new dashboard D is 'owner', the row (D, U, owner) exists exactly
\* once, D has no other member and D's owner_id is U.
C2_CreateMakesOwner ==
    (last.op = "create_dashboard" /\ last.status = 200) =>
        /\ last.dashboard_id \in DOMAIN dashboards
        /\ get_user_role(last.user, last.dashboard_id) = OWNER
        /\ Cardinality(MemberRows(last.dashboard_id, last.user)) = 1
        /\ get_dashboard_members(last.dashboard_id) =
               MemberRows(last.dashboard_id, last.user)
        /\ dashboards[last.dashboard_id].owner = last.user

\* the second dashboard has just been created
C2_Witness ==
    /\ last.op = "create_dashboard"
    /\ last.status = 200
    /\ last.dashboard_id = 2
    /\ last.user \in Users

\* a PUT or DELETE on the member endpoint answered in this step, whose
\* member id names a row that existed when the request arrived
MemberDetailStep ==
    /\ last'.op \in {"put_member", "delete_member"}
    /\ last'.member_id \in DOMAIN members

TargetsOwnerRow ==
    /\ MemberDetailStep
    /\ members[last'.member_id].role = OWNER

TablesUnchanged == members' = members /\ dashboards' = dashboards

\* the request answered in this step comes from a logged-in user and, if it
\* is a PUT, carries a role the view accepts
WellFormed ==
    /\ last'.user \in Users
    /\ last'.op = "put_member" => last'.role \in {EDITOR, VIEWER}

\* C3 as stated: every (well-formed) PUT or DELETE of an owner membership
\* row, for every requester and every dashboard id in the URL, is answered
\* 403 and leaves the row unchanged.
C3_AlwaysForbidden ==
    [][(TargetsOwnerRow /\ WellFormed) =>
        (last'.status = 403 /\ TablesUnchanged)]_vars

\* the status the member views give a request that cannot go through:
\* login redirect, then the owner check of the URL's dashboard, then (PUT)
\* the body, then the member's dashboard against the URL's
RejectionStatus(final) ==
    IF last'.user = NoUser THEN 302
    ELSE IF ~check_dashboard_owner_permission(last'.dashboard_id,
                                              last'.user).granted
    THEN 403
    ELSE IF last'.op = "put_member" /\ last'.role \notin {EDITOR, VIEWER}
    THEN 400
    ELSE IF members[last'.member_id].dashboard # last'.dashboard_id
    THEN 404
    ELSE final

\* C3 amended: every PUT or DELETE of an owner membership row fails and
\* leaves the row unchanged; the status is 403 when the requester is not
\* the owner of the URL's dashboard, or when the URL names the row's own
\* dashboard and the body is valid; it is 302 for an unauthenticated
\* request, 400 for a PUT by that owner whose body has no valid role, and
\* 404 when the URL's dashboard (owned by the requester) is not the row's.
C3_OwnerRowProtected ==
    [][TargetsOwnerRow =>
        (last'.status = RejectionStatus(403) /\ TablesUnchanged)]_vars

\* the owner asked to remove their own membership row and got 403
C3_Witness ==
    /\ last.op = "delete_member"
    /\ last.status = 403
    /\ last.member_id \in DOMAIN members
    /\ members[last.member_id].role = OWNER
    /\ members[last.member_id].dashboard = last.dashboard_id
    /\ members[last.member_id].user = last.user

\* C4: there is at most one membership row per (dashboard, user) pair in
\* every reachable state, also after two add-member requests for the same
\* pair interleave between the existence check and the insert.
C4_UniquePair ==
    \A d \in DashboardIds, u \in Users : Cardinality(MemberRows(d, u)) <= 1

\* the INSERT of an add-member request that passed the existence check was
\* refused because the pair had been inserted in between
C4_Witness ==
    /\ last.op = "post_member"
    /\ last.status = 400
    /\ last.message = "Database integrity error"
    /\ last.dashboard_id \in DOMAIN dashboards
    /\ MemberRows(last.dashboard_id, last.target) # {}

\* an add-member request, answered in this step, that is authorised and
\* well-formed (the requester owns the dashboard, the role is accepted) and
\* names a user who already has a membership row on the dashboard
AddsExistingMember ==
    /\ last'.op = "post_member"
    /\ last'.dashboard_id \in DOMAIN dashboards
    /\ last'.user = dashboards[last'.dashboard_id].owner
    /\ last'.role \in {MissingRole, EDITOR, VIEWER}
    /\ last'.target \in Users
    /\ MemberRows(last'.dashboard_id, last'.target) # {}

\* C5: adding a user who is already a member of the dashboard fails with
\* Conflict (409) and leaves the existing membership row, role included,
\* unchanged.
C5_ConflictOnDuplicate ==
    [][AddsExistingMember => (last'.status = 409 /\ TablesUnchanged)]_vars

\* C6 as stated: a (well-formed) PUT or DELETE whose member belongs to a
\* dashboard other than the URL's existing dashboard is answered 404 and
\* leaves the member unchanged, whoever the requester is.
BelongsToOtherDashboard ==
    /\ MemberDetailStep
    /\ members[last'.member_id].dashboard # last'.dashboard_id

C6_AlwaysNotFound ==
    [][(/\ BelongsToOtherDashboard
        /\ WellFormed
        /\ last'.dashboard_id \in DOMAIN dashboards) =>
        (last'.status = 404 /\ TablesUnchanged)]_vars

\* C6 amended: a PUT or DELETE whose member belongs to a dashboard other
\* than the URL's is always rejected and leaves the member unchanged; the
\* status is 404 when the requester is the owner of the URL's dashboard
\* (and, for PUT, the body carries a role in {editor, viewer}), 403 when
\* the requester is not that owner, 400 for a PUT by that owner without a
\* valid role, and 302 for an unauthenticated request.
C6_CrossDashboardRejected ==
    [][BelongsToOtherDashboard =>
        (last'.status = RejectionStatus(404) /\ TablesUnchanged)]_vars

\* the owner of the URL's dashboard asked to change the role of a
\* non-owner member of another dashboard and got 404
C6_Witness ==
    /\ last.op = "put_member"
    /\ last.status = 404
    /\ last.member_id \in DOMAIN members
    /\ members[last.member_id].role # OWNER
    /\ members[last.member_id].dashboard # last.dashboard_id
    /\ last.dashboard_id \in DOMAIN dashboards
    /\ dashboards[last.dashboard_id].owner = last.user

\* C7: add member, remove member, change role and delete dashboard are
\* rejected, and the dashboard and its membership set are unchanged,
\* whenever the requester's role on the dashboard is editor, viewer or
\* none (not a member).
OwnerOnlyOps == MemberOps \cup {"delete_dashboard"}

C7_OnlyOwnerManages ==
    [][(/\ last'.op \in OwnerOnlyOps
        /\ get_user_role(last'.user, last'.dashboard_id) # OWNER) =>
        (last'.status >= 300 /\ TablesUnchanged)]_vars

\* an editor asked to delete the dashboard and was refused
C7_Witness ==
    /\ last.op = "delete_dashboard"
    /\ last.status = 403
    /\ get_user_role(last.user, last.dashboard_id) = EDITOR

\* C8: check_dashboard_edit_permission(D, V) is granted iff V's membership
\* role on D is owner or editor; for V other than the owner, member with
\* role R in {editor, viewer}, it is granted iff R = editor, and
\* check_dashboard_owner_permission(D, V) is not granted.
C8_EditIffOwnerOrEditor ==
    \A d \in DashboardIds, v \in Requesters :
        /\ check_dashboard_edit_permission(d, v).granted <=>
               get_user_role(v, d) \in {OWNER, EDITOR}
        /\ (/\ d \in DOMAIN dashboards
            /\ v # dashboards[d].owner
            /\ get_user_role(v, d) \in {EDITOR, VIEWER}) =>
               /\ check_dashboard_edit_permission(d, v).granted <=>
                      get_user_role(v, d) = EDITOR
               /\ ~check_dashboard_owner_permission(d, v).granted

\* a member other than the owner, added as editor, has just been made
\* viewer and no longer has edit permission
C8_Witness ==
    /\ last.op = "put_member"
    /\ last.status = 200
    /\ members[last.member_id].role = VIEWER
    /\ members[last.member_id].user # dashboards[last.dashboard_id].owner
    /\ ~check_dashboard_edit_permission(
            last.dashboard_id, members[last.member_id].user).granted

\* C9: check_dashboard_access(D, user) is granted iff D is public or the
\* user has a membership row on D; it is denied with 'Authentication
\* required' when there is no user, 'Dashboard not found' when D does not
\* exist and 'Access denied' when D is private and the user is no member;
\* GET /dashboards/{id}/ by a non-member of a private dashboard returns
\* 403 'Access denied'.
C9_AccessIffPublicOrMember ==
    /\ \A d \in DashboardIds :
           check_dashboard_access(d, NoUser) =
               PermissionResult(FALSE, "Authentication required")
    /\ \A d \in DashboardIds, u \in Users :
           /\ check_dashboard_access(d, u).granted <=>
                  /\ d \in DOMAIN dashboards
                  /\ dashboards[d].is_public \/ MemberRows(d, u) # {}
           /\ d \notin DOMAIN dashboards =>
                  check_dashboard_access(d, u).message = "Dashboard not found"
           /\ (/\ d \in DOMAIN dashboards
               /\ ~dashboards[d].is_public
               /\ MemberRows(d, u) = {}) =>
                  check_dashboard_access(d, u).message = "Access denied"
    /\ (/\ last.op = "get_dashboard"
        /\ last.user \in Users
        /\ last.dashboard_id \in DOMAIN dashboards
        /\ ~dashboards[last.dashboard_id].is_public
        /\ MemberRows(last.dashboard_id, last.user) = {}) =>
           (last.status = 403 /\ last.message = "Access denied")

\* a non-member has just been refused a private dashboard while another
\* dashboard is public
C9_Witness ==
    /\ last.op = "get_dashboard"
    /\ last.status = 403
    /\ last.message = "Access denied"
    /\ \E d \in DOMAIN dashboards :
           dashboards[d].is_public /\ MemberRows(d, last.user) = {}

\* C10: check_dashboard_owner_permission(D, user), computed from the
\* dashboard's owner reference, is granted iff the membership table gives
\* the user the role 'owner' on D.
C10_OwnerCheckAgreesWithTable ==
    \A d \in DashboardIds, u \in Requesters :
        /\ check_dashboard_owner_permission(d, u).granted <=>
               is_dashboard_owner(d, u)
        /\ check_dashboard_owner_permission(d, u).granted <=>
               get_user_role(u, d) = OWNER

\* a dashboard has its owner and one more member after a role change
C10_Witness ==
    /\ last.op = "put_member"
    /\ last.status = 200
    /\ \E d \in DOMAIN dashboards, u \in Users :
           /\ check_dashboard_owner_permission(d, u).granted
           /\ Cardinality(get_dashboard_members(d)) = 2

(* ========================= validate_dashboard_* ======================= *)
\* what each validate_dashboard_* is said to answer for dashboard d, user u
ExpectedValidation(d, granted) ==
    IF d \notin DOMAIN dashboards THEN 404
    ELSE IF ~granted THEN 403
    ELSE 200

\* C11: each validate_dashboard_* returns the dashboard (200) or fails with
\* NotFound (404) when the dashboard id does not exist and with Forbidden
\* (403) when it exists but the user's role is insufficient.
C11_NotFoundOrForbidden ==
    \A d \in DashboardIds, u \in Users :
        /\ validate_dashboard_access(d, u).status =
               ExpectedValidation(d, check_dashboard_access(d, u).granted)
        /\ validate_dashboard_edit_permission(d, u).status =
               ExpectedValidation(
                   d, check_dashboard_edit_permission(d, u).granted)
        /\ validate_dashboard_owner_permission(d, u).status =
               ExpectedValidation(
                   d, check_dashboard_owner_permission(d, u).granted)

(* ============================ todo mutation =========================== *)
MutatingTodoOps == {"put_todo", "delete_todo", "complete", "uncomplete"}

\* a logged-in user who is a viewer or not a member of the dashboard asks to
\* change one of its todos
ViewerMutatesTodo ==
    /\ todoLast = NoTodoResponse
    /\ todoLast'.op \in MutatingTodoOps
    /\ todoLast'.user \in Users
    /\ todoLast'.todo_id \in DOMAIN todos
    /\ todos[todoLast'.todo_id].dashboard = todoLast'.dashboard_id
    /\ get_user_role(todoLast'.user, todoLast'.dashboard_id)
           \notin {OWNER, EDITOR}

\* C12: a viewer or a non-member cannot mutate a todo: PUT, DELETE, complete
\* and uncomplete by such a user are rejected with 403 and leave the todo
\* unchanged.
C12_ViewerCannotMutate ==
    [][ViewerMutatesTodo => (todoLast'.status = 403 /\ todos' = todos)]_vars

(* ============================ refresh tokens ========================== *)
Succeeded(resp) == resp.status \in 200..299

\* a request reaches POST /auth/refresh
RefreshStep == authLast = NoAuthResponse /\ authLast'.op = "refresh"

\* the request is turned down and nothing is issued or stored for it
RejectedWithoutIssue ==
    /\ ~Succeeded(authLast')
    /\ authLast'.access = NoToken
    /\ authLast'.refresh = NoToken
    /\ issued' = issued
    /\ cache' = cache

\* a token that would decode now and names a user who exists
Usable(token) ==
    /\ decode_token(token) = "ok"
    /\ user_exists(token.user_id)

IssuesPair ==
    /\ authLast = NoAuthResponse
    /\ authLast'.op \in {"register", "login", "refresh"}
    /\ Succeeded(authLast')

LogsOut(u) ==
    /\ authLast = NoAuthResponse
    /\ authLast'.op = "logout"
    /\ Succeeded(authLast')
    /\ authLast'.user = u

SameEntry(u) ==
    /\ u \in DOMAIN cache <=> u \in DOMAIN cache'
    /\ u \in DOMAIN cache => cache'[u] = cache[u]

\* C15: the store holds one refresh token per user: when generate_token_pair
\* returns for U (register, login, refresh) the entry of U is the refresh
\* token returned, whatever was stored before, and it stays so until the
\* next issue or invalidation (logout, or the entry's timeout).
C15_StoreHoldsReturnedToken ==
    [][/\ IssuesPair =>
              /\ authLast'.user \in DOMAIN cache'
              /\ cache'[authLast'.user].value = authLast'.refresh
              /\ authLast'.refresh.type = REFRESH
              /\ authLast'.refresh.user_id = authLast'.user
       /\ \A u \in UserIds :
              (/\ ~(IssuesPair /\ authLast'.user = u)
               /\ ~LogsOut(u)
               /\ clock' = clock) => SameEntry(u)]_vars

\* a second login of user 1 has replaced the entry of the first one
C15_Witness ==
    /\ authLast.op = "login"
    /\ authLast.status = 200
    /\ authLast.user = 1
    /\ Len(handed[1].logins) >= 2
    /\ cache[1].value = authLast.refresh
    /\ cache[1].expires = clock + REFRESH_TOKEN_EXPIRATION
    /\ clock > 0

(* ============================== refresh =============================== *)
\* C16: POST /auth/refresh with a valid, unexpired refresh token (in the
\* cookie) of an existing user succeeds and issues a new pair; it fails
\* when the token does not decode and when its user no longer exists, and
\* in both failure cases the store is unchanged.
C16_RefreshIssuesNewPair ==
    [][(RefreshStep /\ authLast'.status # 405) =>
           IF decode_token(authLast'.presented) # "ok"
              \/ ~user_exists(authLast'.presented.user_id)
           THEN ~Succeeded(authLast') /\ cache' = cache
           ELSE authLast'.presented.type = REFRESH =>
                /\ authLast'.status = 200
                /\ authLast'.user = authLast'.presented.user_id
                /\ authLast'.access.type = ACCESS
                /\ authLast'.refresh.type = REFRESH
                /\ cache'[authLast'.user].value = authLast'.refresh]_vars

(* ========================= authentication gate ======================== *)
GateStep == authLast = NoAuthResponse /\ authLast'.op = "task_items"

\* the token is one the service signed, unexpired, of type access, and
\* its user exists
ValidAccessToken(token) ==
    /\ token \in issued
    /\ clock < token.exp
    /\ token.type = ACCESS
    /\ token.user_id \in DOMAIN users

\* C17: the gate calls the handler only when the presented token decodes
\* (valid signature, unexpired), has type access and names an existing
\* user, and then the handler sees exactly that user; otherwise the request
\* is answered 401 and the handler does not run.
C17_GateAdmitsOnlyValidAccess ==
    [][GateStep =>
           IF ValidAccessToken(authLast'.presented)
           THEN /\ authLast'.status = 200
                /\ authLast'.message = "items"
                /\ authLast'.user = authLast'.presented.user_id
           ELSE /\ authLast'.status = 401
                /\ authLast'.message # "items"
                /\ authLast'.user = NoUser]_vars

\* an unexpired refresh token of an existing user has been turned away
C17_Witness ==
    /\ authLast.op = "task_items"
    /\ authLast.status = 401
    /\ authLast.message = "Invalid token type"
    /\ authLast.presented.type = REFRESH
    /\ Usable(authLast.presented)

(* =============================== verify =============================== *)
\* C18: GET /auth/verify succeeds only when the token (Authorization header
\* or cookie) is a valid token of type access; a valid refresh token is
\* rejected.
C18_VerifyNeedsAccessToken ==
    [][(authLast = NoAuthResponse /\ authLast'.op = "verify"
        /\ Succeeded(authLast'))
       => (Usable(authLast'.presented)
           /\ authLast'.presented.type = ACCESS)]_vars

(* =============================== logout =============================== *)
LogoutStep == authLast = NoAuthResponse /\ authLast'.op = "logout"

\* C19: POST /auth/logout succeeds only with a valid bearer token of type
\* access; on success the store has no entry for that user; on every
\* failure the store is unchanged.
C19_LogoutNeedsAccessToken ==
    [][LogoutStep =>
           IF Succeeded(authLast')
           THEN /\ decode_token(authLast'.presented) = "ok"
                /\ authLast'.presented.type = ACCESS
                /\ authLast'.presented.user_id \notin DOMAIN cache'
           ELSE cache' = cache]_vars

(* ============================= expiration ============================= *)
\* decoding a token issued at time t with lifetime delta, seen at time now
ExpectedDecode(t, delta, now) ==
    IF now < t + delta THEN "ok" ELSE "ExpiredSignatureError"

\* the instants around the two expirations of a pair issued at time t
ProbeTimes(t) ==
    {t, t + ACCESS_TOKEN_EXPIRATION - 1, t + ACCESS_TOKEN_EXPIRATION,
     t + REFRESH_TOKEN_EXPIRATION - 1, t + REFRESH_TOKEN_EXPIRATION}

\* C20: an access token issued at time t decodes before t + 15 minutes and
\* fails as expired from then on, a refresh token likewise with t + 7 days,
\* whenever t is.
C20_ExpiresRelativeToIssue ==
    (authLast.op \in {"register", "login"} /\ Succeeded(authLast)) =>
        \A now \in ProbeTimes(authLast.time) :
            /\ decode(authLast.access, now) =
                   ExpectedDecode(authLast.time, ACCESS_TOKEN_EXPIRATION, now)
            /\ decode(authLast.refresh, now) =
                   ExpectedDecode(authLast.time, REFRESH_TOKEN_EXPIRATION,
                                  now)

(* ========================= permission nesting ========================= *)
\* C24: in every reachable state, for every user and dashboard, owner
\* permission granted implies edit permission granted, and edit permission
\* granted implies view access granted.
C24_PermissionsNested ==
    \A d \in DashboardIds, u \in Requesters :
        /\ check_dashboard_owner_permission(d, u).granted =>
               check_dashboard_edit_permission(d, u).granted
        /\ check_dashboard_edit_permission(d, u).granted =>
               check_dashboard_access(d, u).granted

\* after a role change a dashboard has an owner, an editor who is not the
\* owner, and somebody who may view it but not edit it
C24_Witness ==
    /\ last.op = "put_member"
    /\ last.status = 200
    /\ \E d \in DOMAIN dashboards, u \in Users :
           /\ check_dashboard_edit_permission(d, u).granted
           /\ ~check_dashboard_owner_permission(d, u).granted
    /\ \E d \in DOMAIN dashboards, u \in Users :
           /\ check_dashboard_access(d, u).granted
           /\ ~check_dashboard_edit_permission(d, u).granted

(* ========================= creation atomicity ========================= *)
\* the owner of dashboard d has a membership row on it, in the tables dd, mm
HasOwnerMembership(dd, mm, d) ==
    \E m \in DOMAIN mm :
        mm[m].dashboard = d /\ mm[m].user = dd[d].owner

\* C25: dashboard creation is atomic with the creation of the owner
\* membership: a creation whose owner-membership insert fails leaves no
\* dashboard row (and no member row) behind, and after every step each
\* existing dashboard has its owner's membership.
C25_CreationAtomic ==
    [][/\ (/\ last = NoResponse
           /\ last'.op = "create_dashboard"
           /\ last'.status = 500) => TablesUnchanged
       /\ \A d \in DOMAIN dashboards' :
              HasOwnerMembership(dashboards', members', d)]_vars

\* a creation has just failed at the owner-membership insert while another
\* dashboard exists
C25_Witness ==
    /\ last.op = "create_dashboard"
    /\ last.status = 500
    /\ Cardinality(DOMAIN dashboards) = 1

(* ========================== public dashboards ========================= *)
\* user u has no membership row on the public dashboard d
NoRowOnPublic(u, d) ==
    /\ u \in Users
    /\ d \in DOMAIN dashboards
    /\ dashboards[d].is_public
    /\ MemberRows(d, u) = {}

\* C30: a user without a membership row on a public dashboard is granted
\* view access but is denied edit and owner permission, and no request of
\* that user on that dashboard changes the dashboard or member tables.
C30_PublicGrantsViewOnly ==
    [][\A u \in Users, d \in DashboardIds :
           NoRowOnPublic(u, d) =>
               /\ check_dashboard_access(d, u).granted
               /\ ~check_dashboard_edit_permission(d, u).granted
               /\ ~check_dashboard_owner_permission(d, u).granted
               /\ (/\ last = NoResponse
                   /\ last'.user = u
                   /\ last'.dashboard_id = d) => TablesUnchanged]_vars

\* a user without a membership row has just been refused the update of a
\* public dashboard
C30_Witness ==
    /\ last.op = "put_dashboard"
    /\ last.status = 403
    /\ NoRowOnPublic(last.user, last.dashboard_id)

(* ========================== token store TTL =========================== *)
\* C27: the Token Store entry written by generate_token_pair expires at
\* the same instant as the refresh token stored in it, so the store never
\* holds an already expired refresh token and never drops an unexpired one.
C27_EntryExpiresWithToken ==
    \A u \in DOMAIN cache :
        /\ cache[u].expires = cache[u].value.exp
        /\ clock < cache[u].value.exp

(* =========================== todo completion ========================== *)
\* C22: in every state reachable by create_todo, update_todo, complete and
\* uncomplete, a pending todo has completed_by and completed_at null, and
\* update_todo neither sets nor clears them nor changes the status.
C22_CompletionPairOnlyByComplete ==
    [][/\ \A t \in DOMAIN todos' :
              todos'[t].status = PENDING =>
                  /\ todos'[t].completed_by = NoUser
                  /\ todos'[t].completed_at = NoTime
       /\ (todoLast = NoTodoResponse /\ todoLast'.op = "update_todo") =>
              \A t \in DOMAIN todos :
                  /\ todos'[t].status = todos[t].status
                  /\ todos'[t].completed_by = todos[t].completed_by
                  /\ todos'[t].completed_at = todos[t].completed_at]_vars

\* a request to the action endpoint by a logged-in user, naming an
\* existing todo, is answered in this step
ActionStep(t) ==
    /\ todoLast = NoTodoResponse
    /\ todoLast'.op \in TodoActions
    /\ todoLast'.user \in Users
    /\ todoLast'.todo_id = t

\* C23: the action endpoint is a two-state machine: 'complete' on a pending
\* todo makes it completed, with completed_by the requesting user and
\* completed_at set; 'uncomplete' on a completed todo makes it pending with
\* both cleared; 'complete' on a completed todo, 'uncomplete' on a pending
\* one and any other action name fail with 400 and leave the todo unchanged.
C23_ActionStateMachine ==
    [][\A t \in DOMAIN todos :
           ActionStep(t) =>
               IF todoLast'.op = "complete" /\ todos[t].status = PENDING
               THEN /\ t \in DOMAIN todos'
                    /\ todos'[t].status = COMPLETED
                    /\ todos'[t].completed_by = todoLast'.user
                    /\ todos'[t].completed_at # NoTime
               ELSE IF todoLast'.op = "uncomplete"
                       /\ todos[t].status = COMPLETED
               THEN /\ t \in DOMAIN todos'
                    /\ todos'[t].status = PENDING
                    /\ todos'[t].completed_by = NoUser
                    /\ todos'[t].completed_at = NoTime
               ELSE todoLast'.status = 400 /\ todos' = todos]_vars

(* ==================== service-level member operations ================= *)
\* DashboardService.update_member_role or remove_dashboard_member has just
\* been called for the user who owns the dashboard and has a row on it
TargetsOwnerMembership ==
    /\ last = NoResponse
    /\ last'.op \in {"update_member_role", "remove_dashboard_member"}
    /\ last'.dashboard_id \in DOMAIN dashboards
    /\ last'.target = dashboards[last'.dashboard_id].owner
    /\ MemberRows(last'.dashboard_id, last'.target) # {}

\* C26: DashboardService.update_member_role and remove_dashboard_member
\* reject every request that targets the owner's membership row, leaving
\* the row present and its role unchanged.
C26_ServiceProtectsOwnerRow ==
    [][TargetsOwnerMembership =>
           /\ last'.status # 200
           /\ members' = members]_vars

(* ================================ tags ================================ *)
\* a PUT or DELETE on the tag endpoint, naming an existing tag t, is
\* answered in this step
TagDetailStep(t) ==
    /\ tagLast = NoTagResponse
    /\ tagLast'.op \in {"put_tag", "delete_tag"}
    /\ tagLast'.tag_id = t

\* C29: a tag is updated or deleted only by a user who has edit permission
\* on the dashboard the tag belongs to, and a PUT or DELETE on
\* /dashboards/{d}/tags/{t}/ where t belongs to another dashboard does not
\* change or delete t.
C29_TagOfOtherDashboardUntouched ==
    [][\A t \in DOMAIN tags :
           TagDetailStep(t) =>
               /\ tags' # tags =>
                      check_dashboard_edit_permission(
                          tags[t].dashboard, tagLast'.user).granted
               /\ tags[t].dashboard # tagLast'.dashboard_id =>
                      tags' = tags]_vars

(* ============================ rate limiting =========================== *)
\* the rate-limited request r is answered, or handed to login_view, in
\* this step
RateAnswered(r) ==
    /\ BagIn(r, rateInflight)
    /\ rateInflight' = rateInflight (-) SetToBag({r})
    /\ authLast = NoAuthResponse
    /\ authLast'.op = "login"

\* the rate-limited request r reads the key's counter in this step
RateArrives(r) == rateInflight' = rateInflight (+) SetToBag({r})

RateRequests ==
    [key : {rate_key("login", ip) : ip \in ClientIps},
     requests_made : 0..LOGIN_LIMIT]

\* C21: a request that finds LOGIN_LIMIT requests of its key counted in
\* the current window is answered 429 without running login_view (no
\* credential check, no Token Store change, no change of the counter); a
\* request that finds fewer is counted and handed to login_view; and a
\* request arriving after the counter's TTL has run out finds no requests
\* counted.
C21_LimitThen429UntilExpiry ==
    [][\A r \in RateRequests :
           /\ RateAnswered(r) =>
                  IF r.requests_made >= LOGIN_LIMIT
                  THEN /\ authLast'.status = 429
                       /\ UNCHANGED <<cache, issued, handed, users,
                                      rateCache, reached>>
                  ELSE /\ authLast'.status \in {200, 401}
                       /\ rateCache'[r.key].value = r.requests_made + 1
                       /\ rateCache'[r.key].expires = clock + LOGIN_PERIOD
           /\ RateArrives(r) =>
                  r.requests_made =
                      IF /\ r.key \in DOMAIN rateCache
                         /\ clock < rateCache[r.key].expires
                      THEN rateCache[r.key].value
                      ELSE 0]_vars

\* a login has just been answered 429 in the window that began after the
\* counter of the first window expired, and the user's Token Store entry
\* is still the one written at registration
C21_Witness ==
    /\ authLast.op = "login"
    /\ authLast.status = 429
    /\ ticks = 2
    /\ \E k \in DOMAIN rateCache : rateCache[k].value = LOGIN_LIMIT
    /\ cache[1].expires = REFRESH_TOKEN_EXPIRATION

\* C28: under concurrent requests of one client key, at most LOGIN_LIMIT
\* requests reach the wrapped view between two expiries of the key's
\* counter.
C28_AtMostLimitReachHandler ==
    \A k \in DOMAIN reached : reached[k] <= LOGIN_LIMIT

====
